---- MODULE Spec2Model ----
(***************************************************************************)
(* Scheduling and scoring engine of the COA generators.                    *)
(*                                                                         *)
(*   src/enhanced_coa.py   model-based implementation (pydantic Task)      *)
(*   src/coa_generator.py  dictionary-based implementation (dict tasks)    *)
(*                                                                         *)
(* Instants are integers counted in ticks; one millisecond is TicksPerMs   *)
(* ticks, so an instant with a sub-millisecond part is an integer that is  *)
(* not a multiple of TicksPerMs.  The origin of the time axis is           *)
(* 2025-01-01T00:00:00Z.  duration_hours is a rational number of hours,    *)
(* written <<numerator, denominator>>.  Scores and weights are rationals   *)
(* too, kept in lowest terms.                                              *)
(***************************************************************************)
EXTENDS Integers, Sequences, FiniteSets, TLC

VARIABLES tasks, now, w, pc, impl, order, sched, metrics,
          sync_points, checked, frames, heap,
          fasdc, chat, run, state, logged, turns

vars == <<tasks, now, w, pc, impl, order, sched, metrics,
          sync_points, checked, frames, heap,
          fasdc, chat, run, state, logged, turns>>

\* what the validators and the stepwise invocations work on; a single call of
\* topological_order, schedule or score has no access to it
other_vars == <<sync_points, checked, frames, heap, fasdc, chat, run, state, logged, turns>>

\* what belongs to the other components of the repository: the completeness
\* check of a plan, the chat client, the agent graph and the mission clarifier
ext_vars == <<fasdc, chat, run, state, logged, turns>>

\* the mission clarifier: its state dict, every entry that was ever handed to
\* _log, in order, and the number of calls made
clar_vars == <<state, logged, turns>>

----------------------------------------------------------------------------
(* Bounds of the model *)

MaxTasks == 3

MaxEdges == 2

MaxTopoEdges == 4

TicksPerMs == 2

MaxRetries == 2

MaxGraphEdges == 2

MaxLogs == 3

MaxTurns == 2

----------------------------------------------------------------------------
(* Program constants *)

MsPerHour == 3600000

TicksPerHour == MsPerHour * TicksPerMs

_HISTORY_CAP == 100

----------------------------------------------------------------------------
(* Rational arithmetic: <<n, d>> with d > 0 *)

RECURSIVE GCD(_, _)
GCD(a, b) ==
    IF b = 0 THEN a ELSE GCD(b, a % b)

Abs(x) ==
    IF x < 0 THEN -x ELSE x

Norm(r) ==
    LET k == GCD(Abs(r[1]), r[2])
    IN  <<r[1] \div k, r[2] \div k>>

Rat(n, d) ==
    Norm(<<n, d>>)

RAdd(a, b) ==
    Norm(<<a[1] * b[2] + b[1] * a[2], a[2] * b[2]>>)

RSub(a, b) ==
    Norm(<<a[1] * b[2] - b[1] * a[2], a[2] * b[2]>>)

RMul(a, b) ==
    Norm(<<a[1] * b[1], a[2] * b[2]>>)

RLe(a, b) ==
    a[1] * b[2] <= b[1] * a[2]

RMin(a, b) ==
    IF RLe(b, a) THEN b ELSE a

RMax(a, b) ==
    IF RLe(a, b) THEN b ELSE a

Zero == Rat(0, 1)

One == Rat(1, 1)

\* mutant of Max2: the smaller of the two
Min2(a, b) ==
    IF b < a THEN b ELSE a

\* max(a, b)
Max2(a, b) ==
    IF b > a THEN b ELSE a

----------------------------------------------------------------------------
(* Values *)

\* Python's None for an optional instant, and the shapes a window start or a
\* reference time takes: an ISO instant with its UTC offset, an ISO date and
\* time without offset (a naive datetime), or a string that is no ISO date.
Absent == [kind |-> "absent", at |-> 0]

Iso(t) == [kind |-> "iso", at |-> t]

Naive(t) == [kind |-> "naive", at |-> t]

Unparseable == [kind |-> "bad", at |-> 0]

Ok(v) == [exc |-> "none", val |-> v]

Raise(e) == [exc |-> e, val |-> <<>>]

\* sequence helpers
RECURSIVE SumSeq(_)
SumSeq(s) ==
    IF s = <<>> THEN 0 ELSE Head(s) + SumSeq(Tail(s))

RECURSIVE Count(_, _)
Count(s, x) ==
    IF s = <<>> THEN 0
    ELSE (IF Head(s) = x THEN 1 ELSE 0) + Count(Tail(s), x)

Repeat(x, k) ==
    [i \in 1..k |-> x]

RECURSIVE Flatten(_)
Flatten(ss) ==
    IF ss = <<>> THEN <<>> ELSE Head(ss) \o Flatten(Tail(ss))

Range(s) ==
    {s[i] : i \in DOMAIN s}

IdsOf(ts) ==
    [i \in DOMAIN ts |-> ts[i].id]

----------------------------------------------------------------------------
(* Topological order: Kahn's algorithm as both generators write it *)

\* indeg after the two set-up loops: one count per listed dependency
indeg0(ts) ==
    [x \in Range(IdsOf(ts)) |->
        SumSeq([i \in DOMAIN ts |->
            IF ts[i].id = x THEN Len(ts[i].dependencies) ELSE 0])]

\* mutant of g: the dependents of v in the reverse of the order of appending
g_reversed(ts, v) ==
    Flatten([i \in DOMAIN ts |->
        Repeat(ts[Len(ts) + 1 - i].id, Count(ts[Len(ts) + 1 - i].dependencies, v))])

\* g.get(v, []): the ids appended to g[v], in the order the loops append them
g(ts, v) ==
    Flatten([i \in DOMAIN ts |-> Repeat(ts[i].id, Count(ts[i].dependencies, v))])

\* mutant of q0: the queue starts with every id, whatever its in-degree
q0_unfiltered(ts) ==
    IdsOf(ts)

\* q = [t.id for t in tasks if indeg.get(t.id, 0) == 0]
q0(ts) ==
    LET ind == indeg0(ts)
    IN  SelectSeq(IdsOf(ts), LAMBDA x : ind[x] = 0)

\* for nxt in g.get(v, []): indeg[nxt] -= 1; if indeg[nxt] == 0: q.append(nxt)
RECURSIVE Relax(_, _, _)
Relax(nxts, q, indeg) ==
    IF nxts = <<>> THEN [q |-> q, indeg |-> indeg]
    ELSE LET nxt == Head(nxts)
             d   == indeg[nxt] - 1
         IN  Relax(Tail(nxts),
                   IF d = 0 THEN Append(q, nxt) ELSE q,
                   [indeg EXCEPT ![nxt] = d])

\* while q: v = q.pop(0); out.append(v); ...
RECURSIVE KahnLoop(_, _, _, _)
KahnLoop(ts, q, out, indeg) ==
    IF q = <<>> THEN out
    ELSE LET v == Head(q)
             r == Relax(g(ts, v), Tail(q), indeg)
         IN  KahnLoop(ts, r.q, Append(out, v), r.indeg)

\* mutant of _toposort: the emitted ids are returned even when some are missing
_toposort_no_fallback(ts) ==
    KahnLoop(ts, q0(ts), <<>>, indeg0(ts))

_toposort(ts) ==
    LET out == KahnLoop(ts, q0(ts), <<>>, indeg0(ts))
    IN  IF Len(out) = Len(ts) THEN out ELSE IdsOf(ts)

_toposort_d(ts) ==
    LET out == KahnLoop(ts, q0(ts), <<>>, indeg0(ts))
    IN  IF Len(out) = Len(ts) THEN out ELSE IdsOf(ts)

----------------------------------------------------------------------------
(* Forward scheduler *)

EmptyDict == [x \in {} |-> 0]

Put(d, k, v) ==
    [x \in DOMAIN d \cup {k} |-> IF x = k THEN v ELSE d[x]]

\* {t.id: t for t in tasks}: the last task declared under an id wins
t_by_id(ts) ==
    [x \in Range(IdsOf(ts)) |->
        ts[CHOOSE i \in DOMAIN ts :
              /\ ts[i].id = x
              /\ \A j \in DOMAIN ts : ts[j].id = x => j <= i]]

\* mutant of MaxOr: the earliest end of the dependencies instead of the latest
MinOr(S, d) ==
    IF S = {} THEN d ELSE CHOOSE m \in S : \A y \in S : m <= y

\* max([...], default=d) over a list given as the set of its values
MaxOr(S, d) ==
    IF S = {} THEN d ELSE CHOOSE m \in S : \A y \in S : y <= m

\* timedelta(hours=float(x)) in ticks; exact for durations of whole ticks
timedelta_hours(x) ==
    (x[1] * TicksPerHour) \div x[2]

\* one pass of "for tid in order" of enhanced_coa._schedule; result[d] of a
\* dependency that has no entry yet is a KeyError; now_dt carries its UTC
\* offset, and max() of it (or of an end computed from it) with a window start
\* that carries none is a TypeError
RECURSIVE ScheduleLoop(_, _, _, _)
ScheduleLoop(ord, tb, now_dt, result) ==
    IF ord = <<>> THEN Ok(result)
    ELSE LET tid == Head(ord)
             t   == tb[tid]
         IN  IF \E d \in Range(t.dependencies) : d \notin DOMAIN result
             THEN Raise("KeyError")
             ELSE IF t.window.kind = "naive"
             THEN Raise("TypeError")
             ELSE LET deps_end  == MaxOr({result[d].end : d \in Range(t.dependencies)}, now_dt)
                      win_start == IF t.window.kind = "iso" THEN t.window.at ELSE now_dt
                      start     == Max2(deps_end, win_start)
                      end       == start + timedelta_hours(t.duration_hours)
                  IN  ScheduleLoop(Tail(ord), tb, now_dt,
                                   Put(result, tid, [start |-> start, end |-> end]))

_schedule(ts, now_dt) ==
    ScheduleLoop(_toposort(ts), t_by_id(ts), now_dt, EmptyDict)

\* mutant of _parse_iso: the instant is rounded up to the next millisecond
_parse_iso_ceil(s, default_ms) ==
    IF s.kind = "iso" THEN (s.at + TicksPerMs - 1) \div TicksPerMs ELSE default_ms

\* int(datetime.fromisoformat(s).timestamp()*1000), default_ms when s is
\* empty or does not parse
_parse_iso(s, default_ms) ==
    IF s.kind = "iso" THEN s.at \div TicksPerMs ELSE default_ms

\* mutant of dur_ms: the product is rounded up instead of truncated
dur_ms_ceil(x) ==
    IF x[1] = 0 THEN MsPerHour ELSE (x[1] * MsPerHour + x[2] - 1) \div x[2]

\* int(float(t.get("duration_hours") or 1.0) * 3600_000); a missing, None or
\* zero duration is written <<0, 1>> and counts as one hour
dur_ms(x) ==
    IF x[1] = 0 THEN MsPerHour ELSE (x[1] * MsPerHour) \div x[2]

\* fmt: the instant of the ISO string written for a millisecond count
fmt(ms) ==
    ms * TicksPerMs

RECURSIVE ScheduleLoop_d(_, _, _, _)
ScheduleLoop_d(ord, tmap, now_ms, times) ==
    IF ord = <<>> THEN Ok(times)
    ELSE LET tid == Head(ord)
             t   == tmap[tid]
         IN  IF \E d \in Range(t.dependencies) : d \notin DOMAIN times
             THEN Raise("KeyError")
             ELSE LET deps_end  == MaxOr({times[d].end : d \in Range(t.dependencies)}, now_ms)
                      win_start == _parse_iso(t.window, now_ms)
                      start     == Max2(deps_end, win_start)
                  IN  ScheduleLoop_d(Tail(ord), tmap, now_ms,
                                     Put(times, tid,
                                         [start |-> start,
                                          end |-> start + dur_ms(t.duration_hours)]))

\* clock_ms is the wall clock read for the default of _parse_iso(now_iso, ...)
_schedule_d(ts, now_iso, clock_ms) ==
    LET ord    == _toposort_d(ts)
        now_ms == _parse_iso(now_iso, clock_ms)
        r      == ScheduleLoop_d(ord, t_by_id(ts), now_ms, EmptyDict)
    IN  IF r.exc # "none" THEN r
        ELSE Ok([k \in DOMAIN ord |->
                    [id  |-> ord[k],
                     est |-> fmt(r.val[ord[k]].start),
                     eet |-> fmt(r.val[ord[k]].end)]])


----------------------------------------------------------------------------
(* Scorer *)

HoursDivisor == 72

RiskDivisor == 12

ResourceDivisor == 30

DependencyDivisor == 20

RECURSIVE RSumSeq(_)
RSumSeq(s) ==
    IF s = <<>> THEN Zero ELSE RAdd(Norm(Head(s)), RSumSeq(Tail(s)))

\* sum(d.values()) of a dict
RECURSIVE SumValues(_)
SumValues(d) ==
    IF DOMAIN d = {} THEN 0
    ELSE LET k == CHOOSE x \in DOMAIN d : TRUE
         IN  d[k] + SumValues([x \in DOMAIN d \ {k} |-> d[x]])

\* mutant of _clamp01: nothing is clamped
no_clamp(x) ==
    x

\* mutant of _clamp01: only the lower end is clamped
clamp_at_zero(x) ==
    RMax(Zero, x)

\* max(0.0, min(1.0, x))
_clamp01(x) ==
    RMax(Zero, RMin(One, x))

\* mutant of Load: the score rises with the total
Load_rising(total, divisor) ==
    RMul(total, Rat(1, divisor))

\* 1 - total / divisor
Load(total, divisor) ==
    RSub(One, RMul(total, Rat(1, divisor)))

\* sum(float(t.duration_hours) for t in tasks)
total_h(ts) ==
    RSumSeq([i \in DOMAIN ts |-> ts[i].duration_hours])

\* mutant of risk_ct: the tasks that carry a risk are counted, not the risks
risk_ct_tasks(ts) ==
    SumSeq([i \in DOMAIN ts |-> IF ts[i].risks = <<>> THEN 0 ELSE 1])

\* sum(len(t.risks or []) for t in tasks)
risk_ct(ts) ==
    SumSeq([i \in DOMAIN ts |-> Len(ts[i].risks)])

\* res_sum += sum(max(0, int(v)) for v in t.resources.values())
res_sum(ts) ==
    SumSeq([i \in DOMAIN ts |->
        SumValues([k \in DOMAIN ts[i].resources |-> Max2(0, ts[i].resources[k])])])

\* mutant of dep_sum: the tasks that have a dependency are counted, not the
\* dependencies
dep_sum_tasks(ts) ==
    SumSeq([i \in DOMAIN ts |-> IF ts[i].dependencies = <<>> THEN 0 ELSE 1])

\* dep_sum += len(t.dependencies or [])
dep_sum(ts) ==
    SumSeq([i \in DOMAIN ts |-> Len(ts[i].dependencies)])

ScoreKeys == {"speed", "safety", "sustainment", "cost", "simplicity"}

InUnit(x) ==
    RLe(Zero, x) /\ RLe(x, One)

\* the Metrics model: every field is validated ge=0.0, le=1.0
Metrics(m) ==
    IF \A k \in DOMAIN m : InUnit(m[k]) THEN Ok(m) ELSE Raise("ValidationError")

\* the weighted sum of the five sub-scores, in the order the code adds them
Weighted(speed, safety, sustainment, cost, simplicity, ws) ==
    RAdd(RAdd(RAdd(RAdd(RMul(speed, ws.speed), RMul(safety, ws.safety)),
                   RMul(sustainment, ws.sustainment)),
              RMul(cost, ws.cost)),
         RMul(simplicity, ws.simplicity))

\* mutant of _score: the cost sub-score is read from the dependency total
_score_cost_by_deps(ts, ws) ==
    LET speed       == _clamp01(Load(total_h(ts), HoursDivisor))
        safety      == _clamp01(Load(Rat(risk_ct(ts), 1), RiskDivisor))
        sustainment == _clamp01(Load(Rat(res_sum(ts), 1), ResourceDivisor))
        cost        == _clamp01(Load(Rat(dep_sum(ts), 1), ResourceDivisor))
        simplicity  == _clamp01(Load(Rat(dep_sum(ts), 1), DependencyDivisor))
        composite   == _clamp01(Weighted(speed, safety, sustainment, cost, simplicity, ws))
    IN  Metrics([speed |-> speed, safety |-> safety, sustainment |-> sustainment,
                 cost |-> cost, simplicity |-> simplicity, composite |-> composite])

_score(ts, ws) ==
    LET speed       == _clamp01(Load(total_h(ts), HoursDivisor))
        safety      == _clamp01(Load(Rat(risk_ct(ts), 1), RiskDivisor))
        sustainment == _clamp01(Load(Rat(res_sum(ts), 1), ResourceDivisor))
        cost        == _clamp01(Load(Rat(res_sum(ts), 1), ResourceDivisor))
        simplicity  == _clamp01(Load(Rat(dep_sum(ts), 1), DependencyDivisor))
        composite   == _clamp01(Weighted(speed, safety, sustainment, cost, simplicity, ws))
    IN  Metrics([speed |-> speed, safety |-> safety, sustainment |-> sustainment,
                 cost |-> cost, simplicity |-> simplicity, composite |-> composite])

\* sum(float(t.get("duration_hours") or 1.0) for t in tasks)
total_h_d(ts) ==
    RSumSeq([i \in DOMAIN ts |->
        IF ts[i].duration_hours[1] = 0 THEN One ELSE ts[i].duration_hours])

\* sum(sum((t.get("resources") or {}).values()) for t in tasks)
res_sum_d(ts) ==
    SumSeq([i \in DOMAIN ts |-> SumValues(ts[i].resources)])

DefaultWeights ==
    [speed |-> Rat(35, 100), safety |-> Rat(25, 100), sustainment |-> Rat(15, 100),
     cost |-> Rat(10, 100), simplicity |-> Rat(15, 100)]

\* w.get(k, default): the weights coa_generator._score reads
w_get(ws) ==
    [k \in ScoreKeys |-> IF k \in DOMAIN ws THEN ws[k] ELSE DefaultWeights[k]]

_score_d(ts, ws) ==
    LET speed      == _clamp01(Load(total_h_d(ts), HoursDivisor))
        safety     == _clamp01(Load(Rat(risk_ct(ts), 1), RiskDivisor))
        sustain    == _clamp01(Load(Rat(res_sum_d(ts), 1), ResourceDivisor))
        cost       == _clamp01(Load(Rat(res_sum_d(ts), 1), ResourceDivisor))
        simplicity == _clamp01(Load(Rat(dep_sum(ts), 1), DependencyDivisor))
        comp       == _clamp01(Weighted(speed, safety, sustain, cost, simplicity, w_get(ws)))
    IN  Ok([speed |-> speed, safety |-> safety, sustainment |-> sustain,
            cost |-> cost, simplicity |-> simplicity, composite |-> comp])

----------------------------------------------------------------------------
(* Validation layer: the model validators of COARequest and COAResponse *)

\* len(ids) != len(set(ids))
DuplicateIds(ts) ==
    Len(ts) # Cardinality(Range(IdsOf(ts)))

\* some d of some t.dependencies is not in idset
UnknownDependency(ts) ==
    \E i \in DOMAIN ts : \E k \in DOMAIN ts[i].dependencies :
        ts[i].dependencies[k] \notin Range(IdsOf(ts))

\* indeg after "indeg[t.id] += 1" for every listed dependency
indeg_of(ts) ==
    [x \in Range(IdsOf(ts)) |->
        SumSeq([i \in DOMAIN ts |->
            IF ts[i].id = x THEN Len(ts[i].dependencies) ELSE 0])]

\* graph[v] after "graph[d].append(t.id)" for every listed dependency
graph(ts, v) ==
    Flatten([i \in DOMAIN ts |-> Repeat(ts[i].id, Count(ts[i].dependencies, v))])

\* while q: v = q.pop(0); visited += 1; ...
RECURSIVE VisitLoop(_, _, _, _)
VisitLoop(ts, q, visited, indeg) ==
    IF q = <<>> THEN visited
    ELSE LET r == Relax(graph(ts, Head(q)), Tail(q), indeg)
         IN  VisitLoop(ts, r.q, visited + 1, r.indeg)

\* the orders in which a dict built from the set S may hand out its keys
Enumerations(S) ==
    {e \in [1..Cardinality(S) -> S] : \A i, j \in DOMAIN e : e[i] = e[j] => i = j}

\* mutant of AcyclicByKahn: the visited count is not compared
AcyclicByKahn_unchecked(ts, items) ==
    TRUE

\* visited == len(idset), the queue being filled in the order items
AcyclicByKahn(ts, items) ==
    LET indeg == indeg_of(ts)
        q     == SelectSeq(items, LAMBDA x : indeg[x] = 0)
    IN  VisitLoop(ts, q, 0, indeg) = Cardinality(Range(IdsOf(ts)))

\* COARequest._cross_validate_tasks on seed_tasks = ts
_cross_validate_tasks(ts, items) ==
    IF ts = <<>> THEN Ok(ts)
    ELSE IF DuplicateIds(ts) THEN Raise("ValueError")
    ELSE IF UnknownDependency(ts) THEN Raise("ValueError")
    ELSE IF ~AcyclicByKahn(ts, items) THEN Raise("ValueError")
    ELSE Ok(ts)

\* some dep of some sp.depends_on is not in idset
UnknownSyncDependency(ts, sps) ==
    \E i \in DOMAIN sps : \E k \in DOMAIN sps[i].depends_on :
        sps[i].depends_on[k] \notin Range(IdsOf(ts))

\* COAResponse._validate_internal_consistency on tasks = ts (min_length=1)
\* and sync_points = sps
_validate_internal_consistency(ts, sps, items) ==
    IF Len(ts) < 1 THEN Raise("ValidationError")
    ELSE IF DuplicateIds(ts) THEN Raise("ValueError")
    ELSE IF UnknownDependency(ts) THEN Raise("ValueError")
    ELSE IF ~AcyclicByKahn(ts, items) THEN Raise("ValueError")
    ELSE IF UnknownSyncDependency(ts, sps) THEN Raise("ValueError")
    ELSE Ok(ts)

----------------------------------------------------------------------------
(* Inputs of the scheduling specification *)

TaskId(i) == "T" \o ToString(i)

UnknownId == "TX"

\* the ids a dependency list may name: the n declared ids and one unknown id
SourceOrder(n) ==
    [k \in 1..(n + 1) |-> IF k <= n THEN TaskId(k) ELSE UnknownId]

Arcs(n) ==
    Range(SourceOrder(n)) \X (1..n)

RECURSIVE SubsetsUpTo(_, _)
SubsetsUpTo(S, k) ==
    IF k = 0 \/ S = {} THEN {{}}
    ELSE LET x == CHOOSE y \in S : TRUE
         IN  SubsetsUpTo(S \ {x}, k) \cup
             {A \cup {x} : A \in SubsetsUpTo(S \ {x}, k - 1)}

DepsOf(E, i, n) ==
    SelectSeq(SourceOrder(n), LAMBDA d : <<d, i>> \in E)

Ms(k) == k * TicksPerMs

\* a duration of k ticks, in hours
TickDur(k) == <<k, TicksPerHour>>

Hours(h) == <<h, 1>>

NoResources == [x \in {} |-> 0]

MkTask(i, deps, dur, win) ==
    [id |-> TaskId(i), dependencies |-> deps, duration_hours |-> dur,
     window |-> win, risks |-> <<>>, resources |-> NoResources]

\* one millisecond, and a duration with a sub-millisecond part
BaseDur == TickDur(Ms(1))

AltDurs == {TickDur(Ms(2) + 1)}

\* before the reference time, after it on a whole millisecond, and after it
\* with a sub-millisecond part
WinStarts == {Iso(Ms(1) + 1), Iso(Ms(5)), Iso(Ms(5) + 1)}

RefTimes == {Iso(Ms(2)), Iso(Ms(2) + 1)}

\* n tasks over the dependency arcs E; task a (if any) has duration da and
\* task b (if any) declares the window start wb
SchedTasks(n, E, a, da, b, wb) ==
    [i \in 1..n |->
        MkTask(i, DepsOf(E, i, n),
               IF i = a THEN da ELSE BaseDur,
               IF i = b THEN wb ELSE Absent)]

NoResult == Raise("not called")

\* the mission clarifier is not in use
InitClar ==
    /\ state = <<>>
    /\ logged = <<>>
    /\ turns = 0

\* nothing beyond the planning engine has been called
InitExt ==
    /\ fasdc = NoResult
    /\ chat = <<>>
    /\ run = <<>>
    /\ InitClar

\* no validator has run and no stepwise invocation is in progress
InitOther ==
    /\ sync_points = <<>>
    /\ checked = NoResult
    /\ frames = <<>>
    /\ heap = <<>>
    /\ InitExt

----------------------------------------------------------------------------------------------------------------------------------------
(* Calls: one call of one operation on one input *)

\* what pydantic accepts as List[Task]: positive durations, datetime windows,
\* non-negative resource counts
ValidTask(t) ==
    /\ t.duration_hours[1] > 0
    /\ t.window.kind \in {"absent", "iso", "naive"}
    /\ \A k \in DOMAIN t.resources : t.resources[k] >= 0

ValidTasks(ts) ==
    \A i \in DOMAIN ts : ValidTask(ts[i])

\* mutant of CallToposort: the caller's list is put into the returned order
CallToposort_in_place ==
    /\ pc = "idle"
    /\ ValidTasks(tasks)
    /\ pc' = "toposort"
    /\ impl' = "enhanced"
    /\ order' = _toposort(tasks)
    /\ tasks' = [k \in DOMAIN tasks |-> t_by_id(tasks)[order'[k]]]
    /\ UNCHANGED <<now, w, sched, metrics, other_vars>>

CallToposort ==
    /\ pc = "idle"
    /\ ValidTasks(tasks)
    /\ pc' = "toposort"
    /\ impl' = "enhanced"
    /\ order' = _toposort(tasks)
    /\ UNCHANGED <<tasks, now, w, sched, metrics, other_vars>>

CallToposort_d ==
    /\ pc = "idle"
    /\ pc' = "toposort"
    /\ impl' = "dict"
    /\ order' = _toposort_d(tasks)
    /\ UNCHANGED <<tasks, now, w, sched, metrics, other_vars>>

CallSchedule ==
    /\ pc = "idle"
    /\ ValidTasks(tasks)
    /\ now.kind = "iso"
    /\ pc' = "schedule"
    /\ impl' = "enhanced"
    /\ sched' = _schedule(tasks, now.at)
    /\ UNCHANGED <<tasks, now, w, order, metrics, other_vars>>

\* the wall clock, in milliseconds, at the time of the call
ClockMs == {3, 4}

CallSchedule_d ==
    /\ pc = "idle"
    /\ pc' = "schedule"
    /\ impl' = "dict"
    /\ \E clock_ms \in ClockMs : sched' = _schedule_d(tasks, now, clock_ms)
    /\ UNCHANGED <<tasks, now, w, order, metrics, other_vars>>

\* FASDC of enhanced_coa: a Task always has a non-empty label (min_length=1),
\* so "t.duration_hours and t.label" is the truth value of the duration
_fasdc(ts, intent) ==
    LET acyclic  == Len(_toposort(ts)) = Len(ts)
        has      == Len(ts) > 0
        complete == /\ has
                    /\ acyclic
                    /\ \A i \in DOMAIN ts : ts[i].duration_hours[1] # 0
    IN  Ok([feasible |-> has, acceptable |-> TRUE, suitable |-> intent,
            distinguishable |-> TRUE, complete |-> complete])

\* FASDC of coa_generator: every task dict here carries the key
\* "duration_hours", which is all that "complete" asks of a task
_fasdc_d(ts, intent) ==
    LET has     == ts # <<>>
        acyclic == Len(_toposort_d(ts)) = Len(ts)
    IN  Ok([feasible |-> has, acceptable |-> TRUE, suitable |-> intent,
            distinguishable |-> TRUE,
            complete |-> has /\ acyclic /\ \A i \in DOMAIN ts : "duration_hours" \in DOMAIN ts[i]])

\* _fasdc(tasks, mission) with a mission that states an intent or none
CallFasdc ==
    /\ pc = "idle"
    /\ ValidTasks(tasks)
    /\ pc' = "fasdc"
    /\ impl' = "enhanced"
    /\ \E intent \in BOOLEAN : fasdc' = _fasdc(tasks, intent)
    /\ UNCHANGED <<tasks, now, w, order, sched, metrics,
                   sync_points, checked, frames, heap, chat, run, clar_vars>>

CallFasdc_d ==
    /\ pc = "idle"
    /\ pc' = "fasdc"
    /\ impl' = "dict"
    /\ \E intent \in BOOLEAN : fasdc' = _fasdc_d(tasks, intent)
    /\ UNCHANGED <<tasks, now, w, order, sched, metrics,
                   sync_points, checked, frames, heap, chat, run, clar_vars>>

----------------------------------------------------------------------------
(* The scheduling specification *)

Init ==
    /\ \E n \in 0..MaxTasks :
       \E E \in SubsetsUpTo(Arcs(n), MaxEdges) :
       \E a \in 0..n, b \in 0..n :
       \E da \in AltDurs, wb \in WinStarts :
           tasks = SchedTasks(n, E, a, da, b, wb)
    /\ now \in RefTimes
    /\ w = DefaultWeights
    /\ pc = "idle"
    /\ impl = "none"
    /\ order = <<>>
    /\ sched = NoResult
    /\ metrics = NoResult
    /\ InitOther

Next ==
    \/ CallSchedule
    \/ CallSchedule_d

Spec == Init /\ [][Next]_vars

----------------------------------------------------------------------------
(* The ordering specification: dependency graphs only, put in order or      *)
(* checked for completeness                                                 *)

InitTopo ==
    /\ \E n \in 0..MaxTasks :
       \E E \in SubsetsUpTo(Arcs(n), MaxTopoEdges) :
           tasks = SchedTasks(n, E, 0, BaseDur, 0, Absent)
    /\ now = Iso(0)
    /\ w = DefaultWeights
    /\ pc = "idle"
    /\ impl = "none"
    /\ order = <<>>
    /\ sched = NoResult
    /\ metrics = NoResult
    /\ InitOther

NextTopo ==
    \/ CallToposort
    \/ CallToposort_d
    \/ CallFasdc
    \/ CallFasdc_d

SpecTopo == InitTopo /\ [][NextTopo]_vars

----------------------------------------------------------------------------
(* The scoring specification *)

\* ObjectiveWeights: five fields, each ge=0, le=1, summing to 0.95 .. 1.05
WeightSum(ws) ==
    RAdd(RAdd(RAdd(RAdd(ws.speed, ws.safety), ws.sustainment), ws.cost), ws.simplicity)

ValidWeights(ws) ==
    /\ DOMAIN ws = ScoreKeys
    /\ \A k \in ScoreKeys : InUnit(ws[k])
    /\ RLe(Rat(95, 100), WeightSum(ws))
    /\ RLe(WeightSum(ws), Rat(105, 100))

CallScore ==
    /\ pc = "idle"
    /\ ValidTasks(tasks)
    /\ ValidWeights(w)
    /\ pc' = "score"
    /\ impl' = "enhanced"
    /\ metrics' = _score(tasks, w)
    /\ UNCHANGED <<tasks, now, w, order, sched, other_vars>>

CallScore_d ==
    /\ pc = "idle"
    /\ pc' = "score"
    /\ impl' = "dict"
    /\ metrics' = _score_d(tasks, w)
    /\ UNCHANGED <<tasks, now, w, order, sched, other_vars>>

Risk == [desc |-> "risk", likelihood |-> "M", impact |-> "M"]

\* a task of d hours with r risks, the resource counts res and k dependencies
ScoreTask(i, d, r, res, k) ==
    [id |-> TaskId(i), dependencies |-> [j \in 1..k |-> TaskId(j)],
     duration_hours |-> Hours(d), window |-> Absent,
     risks |-> Repeat(Risk, r), resources |-> res]

Assets(a, b) == [fuel |-> a, trucks |-> b]

\* the loads one task may carry: a plain one-hour task, or that task with one
\* load set just below or at its divisor (a duration of 0 is what only the
\* dictionary implementation can be handed)
Profiles ==
    {[d |-> 1, r |-> 0, res |-> NoResources, k |-> 0]}
    \cup {[d |-> x, r |-> 0, res |-> NoResources, k |-> 0] :
            x \in {0, HoursDivisor \div 2 - 1, HoursDivisor - 1}}
    \cup {[d |-> 1, r |-> x, res |-> NoResources, k |-> 0] :
            x \in {RiskDivisor - 1, RiskDivisor}}
    \cup {[d |-> 1, r |-> 0, res |-> Assets(x, ResourceDivisor \div 2), k |-> 0] :
            x \in {ResourceDivisor \div 2 - 1, ResourceDivisor \div 2}}
    \cup {[d |-> 1, r |-> 0, res |-> NoResources, k |-> x] :
            x \in {DependencyDivisor - 1, DependencyDivisor}}

Pct(a, b, c, d, e) ==
    [speed |-> Rat(a, 100), safety |-> Rat(b, 100), sustainment |-> Rat(c, 100),
     cost |-> Rat(d, 100), simplicity |-> Rat(e, 100)]

\* the defaults; sums of 0.95 and 1.05; all zero; all one; and two dicts that
\* leave keys out
WeightChoices ==
    {DefaultWeights, Pct(30, 25, 15, 10, 15), Pct(40, 25, 15, 10, 15),
     Pct(0, 0, 0, 0, 0), Pct(100, 100, 100, 100, 100),
     [x \in {} |-> Zero], [speed |-> One]}

InitScore ==
    /\ \E n \in 0..MaxTasks :
       \E ps \in [1..n -> Profiles] :
           tasks = [i \in 1..n |-> ScoreTask(i, ps[i].d, ps[i].r, ps[i].res, ps[i].k)]
    /\ now = Iso(0)
    /\ w \in WeightChoices
    /\ pc = "idle"
    /\ impl = "none"
    /\ order = <<>>
    /\ sched = NoResult
    /\ metrics = NoResult
    /\ InitOther

NextScore ==
    \/ CallScore
    \/ CallScore_d

SpecScore == InitScore /\ [][NextScore]_vars

----------------------------------------------------------------------------
(* The scenario specification: the worked example and its neighbours *)

\* T1 (4 h), T2 (3 h, after T1), T3 (6 h, after T1 and T2), no windows, no
\* risks, no resources
ExampleTasks ==
    <<MkTask(1, <<>>, Hours(4), Absent),
      MkTask(2, <<TaskId(1)>>, Hours(3), Absent),
      MkTask(3, <<TaskId(1), TaskId(2)>>, Hours(6), Absent)>>

\* hh:00 on the day of the origin
At(h) == h * TicksPerHour

\* 00:00 and 01:00 as reference time, no reference time, and a string that is
\* no date
ScenarioTimes == {Iso(At(0)), Iso(At(1)), Absent, Unparseable}

ScenarioWeights == {DefaultWeights, Pct(40, 25, 15, 10, 15)}

\* the same call of schedule made once more with the same two arguments
RecallSchedule ==
    /\ pc = "schedule"
    /\ impl = "enhanced"
    /\ pc' = "schedule"
    /\ impl' = "enhanced"
    /\ sched' = _schedule(tasks, now.at)
    /\ UNCHANGED <<tasks, now, w, order, metrics, other_vars>>

RecallSchedule_d ==
    /\ pc = "schedule"
    /\ impl = "dict"
    /\ pc' = "schedule"
    /\ impl' = "dict"
    /\ \E clock_ms \in ClockMs : sched' = _schedule_d(tasks, now, clock_ms)
    /\ UNCHANGED <<tasks, now, w, order, metrics, other_vars>>

\* the example tasks declared in any of their six orders
InitScenario ==
    /\ \E p \in Permutations(DOMAIN ExampleTasks) :
           tasks = [i \in DOMAIN ExampleTasks |-> ExampleTasks[p[i]]]
    /\ now \in ScenarioTimes
    /\ w \in ScenarioWeights
    /\ pc = "idle"
    /\ impl = "none"
    /\ order = <<>>
    /\ sched = NoResult
    /\ metrics = NoResult
    /\ InitOther

NextScenario ==
    \/ CallToposort
    \/ CallToposort_d
    \/ CallSchedule
    \/ CallSchedule_d
    \/ RecallSchedule
    \/ RecallSchedule_d
    \/ CallScore
    \/ CallScore_d

SpecScenario == InitScenario /\ [][NextScenario]_vars

----------------------------------------------------------------------------
(* The equivalence specification: either implementation called on input     *)
(* that both accept, with durations of whole hours                          *)

\* the dependencies among n declared tasks
DeclaredArcs(n) ==
    {TaskId(i) : i \in 1..n} \X (1..n)

\* n tasks of one hour over the dependency arcs E; task a (if any) takes two
\* hours, carries a risk and resources, and declares the window start wa
EquivTasks(n, E, a, wa) ==
    [i \in 1..n |->
        [MkTask(i, DepsOf(E, i, n), Hours(IF i = a THEN 2 ELSE 1),
                IF i = a THEN wa ELSE Absent)
            EXCEPT !.risks = IF i = a THEN <<Risk>> ELSE <<>>,
                   !.resources = IF i = a THEN Assets(1, 2) ELSE NoResources]]

\* 01:00 on the millisecond, and 01:00 and half a millisecond
EquivWindows == {Iso(At(1)), Iso(At(1) + 1)}

\* 00:00 on the millisecond, and 00:00 and half a millisecond
EquivTimes == {Iso(At(0)), Iso(At(0) + 1)}

InitEquiv ==
    /\ \E n \in 0..MaxTasks :
       \E E \in SubsetsUpTo(DeclaredArcs(n), MaxEdges) :
       \E a \in 0..n :
       \E wa \in EquivWindows :
           tasks = EquivTasks(n, E, a, wa)
    /\ now \in EquivTimes
    /\ w \in ScenarioWeights
    /\ pc = "idle"
    /\ impl = "none"
    /\ order = <<>>
    /\ sched = NoResult
    /\ metrics = NoResult
    /\ InitOther

NextEquiv ==
    \/ CallToposort
    \/ CallToposort_d
    \/ CallSchedule
    \/ CallSchedule_d
    \/ CallScore
    \/ CallScore_d

SpecEquiv == InitEquiv /\ [][NextEquiv]_vars

----------------------------------------------------------------------------
(* The declaration-order specification: schedules of task sets whose        *)
(* dependencies all name declared tasks, in either direction of the list    *)

\* task a (if any) has the other duration and declares the window start wa
InitReorder ==
    /\ \E n \in 0..MaxTasks :
       \E E \in SubsetsUpTo(DeclaredArcs(n), MaxEdges) :
       \E a \in 0..n :
       \E da \in AltDurs, wa \in WinStarts :
           tasks = SchedTasks(n, E, a, da, a, wa)
    /\ now \in RefTimes
    /\ w = DefaultWeights
    /\ pc = "idle"
    /\ impl = "none"
    /\ order = <<>>
    /\ sched = NoResult
    /\ metrics = NoResult
    /\ InitOther

NextReorder ==
    \/ CallSchedule
    \/ CallSchedule_d

SpecReorder == InitReorder /\ [][NextReorder]_vars

----------------------------------------------------------------------------
(* The validation specification: the validators, and the generator from its *)
(* validated request to its timeline                                        *)

\* COARequest.model_validate(raw_req) with seed_tasks = tasks
ValidateRequest ==
    /\ pc = "idle"
    /\ ValidTasks(tasks)
    /\ pc' = "validated"
    /\ impl' = "request"
    /\ \E items \in Enumerations(Range(IdsOf(tasks))) :
           checked' = _cross_validate_tasks(tasks, items)
    /\ UNCHANGED <<tasks, now, w, order, sched, metrics, sync_points, frames, heap, ext_vars>>

\* COAResponse(tasks=tasks, sync_points=sync_points, ...)
ValidateResponse ==
    /\ pc = "idle"
    /\ ValidTasks(tasks)
    /\ pc' = "validated"
    /\ impl' = "response"
    /\ \E items \in Enumerations(Range(IdsOf(tasks))) :
           checked' = _validate_internal_consistency(tasks, sync_points, items)
    /\ UNCHANGED <<tasks, now, w, order, sched, metrics, sync_points, frames, heap, ext_vars>>

\* the three tasks the generator plans when it is given no seed tasks
DefaultTasks(start) ==
    [i \in DOMAIN ExampleTasks |-> [ExampleTasks[i] EXCEPT !.window = Iso(start)]]

\* COA_generator from the accepted request to timeline = _schedule(tasks,
\* now_dt): the seed tasks if there are any, else the default tasks; now_dt is
\* the request's now_iso, else the wall clock
COA_generator ==
    /\ pc = "validated"
    /\ impl = "request"
    /\ checked.exc = "none"
    /\ pc' = "schedule"
    /\ impl' = "enhanced"
    /\ \E clock_ms \in ClockMs :
           LET now_dt == IF now.kind = "iso" THEN now.at ELSE fmt(clock_ms)
               planned == IF tasks # <<>> THEN tasks ELSE DefaultTasks(now_dt)
           IN  sched' = _schedule(planned, now_dt)
    /\ UNCHANGED <<tasks, now, w, order, metrics, checked, sync_points, frames, heap, ext_vars>>

\* the ids of n tasks: all different, or one task bears the id of an earlier one
IdChoices(n) ==
    {[k \in 1..n |-> k]} \cup
    {[k \in 1..n |-> IF k = p[2] THEN p[1] ELSE k] :
        p \in {x \in (1..n) \X (1..n) : x[1] < x[2]}}

\* n tasks of one hour with the ids ids over the dependency arcs E; the first
\* task declares the window w1
SeedTasks(n, ids, E, w1) ==
    [i \in 1..n |->
        MkTask(ids[i], DepsOf(E, i, n), Hours(1), IF i = 1 THEN w1 ELSE Absent)]

SyncPoint(ids) == [purpose |-> "sync", depends_on |-> ids]

\* no sync point, one on a declared id, one on an id no task bears
SyncChoices ==
    {<<>>, <<SyncPoint(<<TaskId(1)>>)>>, <<SyncPoint(<<TaskId(1)>>), SyncPoint(<<UnknownId>>)>>}

\* no window, a window start with its UTC offset, one without offset
SeedWindows == {Absent, Iso(At(1)), Naive(At(1))}

InitValidate ==
    /\ \E n \in 0..MaxTasks :
       \E ids \in IdChoices(n) :
       \E E \in SubsetsUpTo(Arcs(n), MaxEdges) :
           \/ /\ tasks = SeedTasks(n, ids, E, Absent)
              /\ now = Iso(At(0))
              /\ sync_points \in SyncChoices
           \/ /\ \E w1 \in SeedWindows : tasks = SeedTasks(n, ids, E, w1)
              /\ now \in {Iso(At(0)), Absent}
              /\ sync_points = <<>>
    /\ w = DefaultWeights
    /\ pc = "idle"
    /\ impl = "none"
    /\ order = <<>>
    /\ sched = NoResult
    /\ metrics = NoResult
    /\ checked = NoResult
    /\ frames = <<>>
    /\ heap = <<>>
    /\ InitExt

NextValidate ==
    \/ ValidateRequest
    \/ ValidateResponse
    \/ COA_generator

SpecValidate == InitValidate /\ [][NextValidate]_vars

----------------------------------------------------------------------------
(* The concurrent specification: two invocations of enhanced_coa's schedule *)
(* or score, each on its own arguments, advancing one loop iteration at a   *)
(* time in any interleaving.  frames[p] holds the local variables of        *)
(* invocation p; heap holds the dict objects that "{}" creates, by address. *)

Procs == {1, 2}

\* the local variables of an invocation that has not started yet
Frame(op, ts, now_dt, ws) ==
    [op |-> op, pc |-> "entry", tasks |-> ts, now_dt |-> now_dt, w |-> ws,
     order |-> <<>>, result |-> 0, todo |-> <<>>,
     total_h |-> Zero, risk_ct |-> 0, res_sum |-> 0, dep_sum |-> 0,
     ret |-> NoResult]

\* mutant of FreshDict: one dict object serves every invocation
SharedDict(h) ==
    1

\* the address of the object that "result = {}" creates: a new one each time
FreshDict(h) ==
    Cardinality(DOMAIN h) + 1

\* order = _toposort(tasks); t_by_id = {...}; result = {}
EnterSchedule(p) ==
    /\ frames[p].op = "schedule"
    /\ frames[p].pc = "entry"
    /\ LET addr == FreshDict(heap)
       IN  /\ heap' = Put(heap, addr, EmptyDict)
           /\ frames' = [frames EXCEPT ![p].pc = "loop",
                                       ![p].order = _toposort(frames[p].tasks),
                                       ![p].result = addr]
    /\ UNCHANGED <<tasks, now, w, pc, impl, order, sched, metrics, sync_points, checked, ext_vars>>

\* one iteration of "for tid in order"
StepSchedule(p) ==
    /\ frames[p].op = "schedule"
    /\ frames[p].pc = "loop"
    /\ frames[p].order # <<>>
    /\ LET f      == frames[p]
           tid    == Head(f.order)
           t      == t_by_id(f.tasks)[tid]
           result == heap[f.result]
       IN  IF \E d \in Range(t.dependencies) : d \notin DOMAIN result
           THEN /\ frames' = [frames EXCEPT ![p].pc = "raised",
                                            ![p].ret = Raise("KeyError")]
                /\ heap' = heap
           ELSE IF t.window.kind = "naive"
           THEN /\ frames' = [frames EXCEPT ![p].pc = "raised",
                                            ![p].ret = Raise("TypeError")]
                /\ heap' = heap
           ELSE LET deps_end  == MaxOr({result[d].end : d \in Range(t.dependencies)},
                                       f.now_dt)
                    win_start == IF t.window.kind = "iso" THEN t.window.at ELSE f.now_dt
                    start     == Max2(deps_end, win_start)
                    end       == start + timedelta_hours(t.duration_hours)
                IN  /\ heap' = [heap EXCEPT ![f.result] =
                                    Put(result, tid, [start |-> start, end |-> end])]
                    /\ frames' = [frames EXCEPT ![p].order = Tail(f.order)]
    /\ UNCHANGED <<tasks, now, w, pc, impl, order, sched, metrics, sync_points, checked, ext_vars>>

\* return result
ReturnSchedule(p) ==
    /\ frames[p].op = "schedule"
    /\ frames[p].pc = "loop"
    /\ frames[p].order = <<>>
    /\ frames' = [frames EXCEPT ![p].pc = "done"]
    /\ UNCHANGED <<tasks, now, w, pc, impl, order, sched, metrics, sync_points, checked, heap, ext_vars>>

\* total_h = sum(...); risk_ct = sum(...); res_sum = 0; dep_sum = 0
EnterScore(p) ==
    /\ frames[p].op = "score"
    /\ frames[p].pc = "entry"
    /\ frames' = [frames EXCEPT ![p].pc = "loop",
                                ![p].total_h = total_h(frames[p].tasks),
                                ![p].risk_ct = risk_ct(frames[p].tasks),
                                ![p].res_sum = 0,
                                ![p].dep_sum = 0,
                                ![p].todo = frames[p].tasks]
    /\ UNCHANGED <<tasks, now, w, pc, impl, order, sched, metrics, sync_points, checked, heap, ext_vars>>

\* one iteration of "for t in tasks"
StepScore(p) ==
    /\ frames[p].op = "score"
    /\ frames[p].pc = "loop"
    /\ frames[p].todo # <<>>
    /\ LET f == frames[p]
           t == Head(f.todo)
       IN  frames' = [frames EXCEPT
                         ![p].dep_sum = f.dep_sum + Len(t.dependencies),
                         ![p].res_sum = f.res_sum + SumValues(
                             [k \in DOMAIN t.resources |-> Max2(0, t.resources[k])]),
                         ![p].todo = Tail(f.todo)]
    /\ UNCHANGED <<tasks, now, w, pc, impl, order, sched, metrics, sync_points, checked, heap, ext_vars>>

\* the five sub-scores and the composite from the four totals
MetricsOf(th, rc, rs, ds, ws) ==
    LET speed       == _clamp01(Load(th, HoursDivisor))
        safety      == _clamp01(Load(Rat(rc, 1), RiskDivisor))
        sustainment == _clamp01(Load(Rat(rs, 1), ResourceDivisor))
        cost        == _clamp01(Load(Rat(rs, 1), ResourceDivisor))
        simplicity  == _clamp01(Load(Rat(ds, 1), DependencyDivisor))
        composite   == _clamp01(Weighted(speed, safety, sustainment, cost, simplicity, ws))
    IN  Metrics([speed |-> speed, safety |-> safety, sustainment |-> sustainment,
                 cost |-> cost, simplicity |-> simplicity, composite |-> composite])

\* speed = ...; composite = ...; return Metrics(...)
ReturnScore(p) ==
    /\ frames[p].op = "score"
    /\ frames[p].pc = "loop"
    /\ frames[p].todo = <<>>
    /\ LET f == frames[p]
       IN  frames' = [frames EXCEPT
                         ![p].pc = "done",
                         ![p].ret = MetricsOf(f.total_h, f.risk_ct, f.res_sum, f.dep_sum, f.w)]
    /\ UNCHANGED <<tasks, now, w, pc, impl, order, sched, metrics, sync_points, checked, heap, ext_vars>>

\* the task sets the two callers hold: one task; two tasks in dependency
\* order with resources; the same two ids declared the other way round with
\* other durations and a window; a task that depends on an undeclared id
CallerTaskSets ==
    {<<MkTask(1, <<>>, Hours(1), Absent)>>,
     <<[MkTask(1, <<>>, Hours(2), Absent) EXCEPT !.resources = Assets(1, 2)],
       MkTask(2, <<TaskId(1)>>, Hours(1), Absent)>>,
     <<MkTask(2, <<TaskId(1)>>, Hours(3), Iso(At(9))),
       MkTask(1, <<>>, Hours(4), Absent)>>,
     <<MkTask(1, <<TaskId(2)>>, Hours(1), Absent)>>}

InitConcurrent ==
    /\ frames \in [Procs -> {Frame(op, ts, now_dt, DefaultWeights) :
                                op \in {"schedule", "score"},
                                ts \in CallerTaskSets,
                                now_dt \in {At(0), At(1)}}]
    /\ heap = <<>>
    /\ tasks = <<>>
    /\ now = Absent
    /\ w = DefaultWeights
    /\ pc = "idle"
    /\ impl = "none"
    /\ order = <<>>
    /\ sched = NoResult
    /\ metrics = NoResult
    /\ sync_points = <<>>
    /\ checked = NoResult
    /\ InitExt

NextConcurrent ==
    \E p \in Procs :
        \/ EnterSchedule(p)
        \/ StepSchedule(p)
        \/ ReturnSchedule(p)
        \/ EnterScore(p)
        \/ StepScore(p)
        \/ ReturnScore(p)

SpecConcurrent == InitConcurrent /\ [][NextConcurrent]_vars

----------------------------------------------------------------------------
(* The chat client: ChatLcafe.invoke, one request or one sleep at a time.   *)
(* chat.log holds the outcome of every request made so far, chat.slept the  *)
(* seconds of every sleep.                                                  *)

engine_vars == <<tasks, now, w, pc, impl, order, sched, metrics,
                 sync_points, checked, frames, heap>>

\* the planning engine is not in use
InitEngine ==
    /\ tasks = <<>>
    /\ now = Absent
    /\ w = DefaultWeights
    /\ pc = "idle"
    /\ impl = "none"
    /\ order = <<>>
    /\ sched = NoResult
    /\ metrics = NoResult
    /\ sync_points = <<>>
    /\ checked = NoResult
    /\ frames = <<>>
    /\ heap = <<>>

\* ChatLcafe(max_retries=n): a client on which invoke has not been called
ChatLcafe(n) ==
    [max_retries |-> n, pc |-> "idle", attempt |-> 0, log |-> <<>>,
     slept |-> <<>>, ret |-> NoResult]

\* mutant of RetriableCodes: 404 is retried as well
RetriableCodes_and_404 == {404, 429, 500, 502, 503, 504}

\* e.code in {429, 500, 502, 503, 504}
RetriableCodes == {429, 500, 502, 503, 504}

\* the statuses an HTTPError may carry here
ErrorCodes == RetriableCodes \cup {400, 401, 404}

\* what one request comes to: a response whose JSON holds a content, a
\* response whose body is no JSON or holds no choices[0].message.content, an
\* HTTPError with a status, or a URLError, TimeoutError or ConnectionError
Answer(c) == [kind |-> "ok", content |-> c, code |-> 200]

Malformed == [kind |-> "malformed", content |-> "", code |-> 200]

HttpError(code) == [kind |-> "http", content |-> "", code |-> code]

NetworkError == [kind |-> "network", content |-> "", code |-> 0]

Contents == {"", "text"}

Outcomes ==
    {Answer(c) : c \in Contents} \cup {Malformed, NetworkError}
    \cup {HttpError(code) : code \in ErrorCodes}

RECURSIVE Pow2(_)
Pow2(k) ==
    IF k = 0 THEN 1 ELSE 2 * Pow2(k - 1)

\* invoke(messages) up to the first pass through the loop header
Invoke ==
    /\ chat.pc = "idle"
    /\ chat' = [chat EXCEPT !.pc = "request", !.attempt = 0]
    /\ UNCHANGED <<engine_vars, fasdc, run, clar_vars>>

\* mutant of Request: a response with a content is taken for a network error
Request_retries_answer ==
    /\ chat.pc = "request"
    /\ chat.attempt < chat.max_retries + 1
    /\ \E o \in Outcomes :
         LET c == [chat EXCEPT !.log = Append(chat.log, o)]
         IN  chat' =
               IF o.kind = "malformed"
               THEN [c EXCEPT !.pc = "raised", !.ret = Raise("KeyError")]
               ELSE IF o.kind = "http"
               THEN IF o.code \in RetriableCodes /\ chat.attempt < chat.max_retries
                    THEN [c EXCEPT !.pc = "sleep"]
                    ELSE [c EXCEPT !.pc = "raised", !.ret = Raise("Exception")]
               ELSE IF chat.attempt < chat.max_retries
                    THEN [c EXCEPT !.pc = "sleep"]
                    ELSE [c EXCEPT !.pc = "raised", !.ret = Raise("ConnectionError")]
    /\ UNCHANGED <<engine_vars, fasdc, run, clar_vars>>

\* one pass through the try statement: urlopen, json.load, the indexing of
\* the response, and the except clause that matches
Request ==
    /\ chat.pc = "request"
    /\ chat.attempt < chat.max_retries + 1
    /\ \E o \in Outcomes :
         LET c == [chat EXCEPT !.log = Append(chat.log, o)]
         IN  chat' =
               IF o.kind = "ok"
               THEN [c EXCEPT !.pc = "returned", !.ret = Ok(o.content)]
               ELSE IF o.kind = "malformed"
               THEN [c EXCEPT !.pc = "raised", !.ret = Raise("KeyError")]
               ELSE IF o.kind = "http"
               THEN IF o.code \in RetriableCodes /\ chat.attempt < chat.max_retries
                    THEN [c EXCEPT !.pc = "sleep"]
                    ELSE [c EXCEPT !.pc = "raised", !.ret = Raise("Exception")]
               ELSE IF chat.attempt < chat.max_retries
                    THEN [c EXCEPT !.pc = "sleep"]
                    ELSE [c EXCEPT !.pc = "raised", !.ret = Raise("ConnectionError")]
    /\ UNCHANGED <<engine_vars, fasdc, run, clar_vars>>

\* sleep(2 ** attempt) after a retriable status, sleep(1) after a network
\* error; continue
Sleep ==
    /\ chat.pc = "sleep"
    /\ LET last == chat.log[Len(chat.log)]
           secs == IF last.kind = "http" THEN Pow2(chat.attempt) ELSE 1
       IN  chat' = [chat EXCEPT !.pc = "request",
                                !.attempt = chat.attempt + 1,
                                !.slept = Append(chat.slept, secs)]
    /\ UNCHANGED <<engine_vars, fasdc, run, clar_vars>>

\* the loop ends without a return or a raise
AllRetriesFailed ==
    /\ chat.pc = "request"
    /\ ~(chat.attempt < chat.max_retries + 1)
    /\ chat' = [chat EXCEPT !.pc = "raised", !.ret = Raise("RuntimeError")]
    /\ UNCHANGED <<engine_vars, fasdc, run, clar_vars>>

InitChat ==
    /\ InitEngine
    /\ fasdc = NoResult
    /\ run = <<>>
    /\ InitClar
    /\ \E n \in -1..MaxRetries : chat = ChatLcafe(n)

NextChat ==
    \/ Invoke
    \/ Request
    \/ Sleep
    \/ AllRetriesFailed

SpecChat == InitChat /\ [][NextChat]_vars

\* every request is answered or fails, and every sleep ends
SpecChatFair == SpecChat /\ WF_vars(NextChat)

----------------------------------------------------------------------------
(* The agent graph: AgentGraph.run, one pass through the loop at a time.    *)
(* The state handed from agent to agent is the dict with its "history"; an  *)
(* agent appends its turn to the history and hands the state on.            *)

\* the agents of the demo graph, all registered with add_agent
AgentNames == {"clarifier", "planner", "summary"}

\* a name no agent is registered under
Unregistered == "archive"

\* Python's None as the value of current
None == "<None>"

\* the truth value of current in "while current"
Truthy(name) ==
    name \notin {"", None}

\* the predicates of the edges: the default lambda s: True, and one that
\* holds while no agent has taken its turn
Predicates == {"always", "fresh"}

Holds(pred, st) ==
    IF pred = "always" THEN TRUE ELSE st.history = <<>>

\* (src, dst, predicate)
EdgeChoices ==
    AgentNames \X (AgentNames \cup {Unregistered}) \X Predicates

AgentGraph(edges, start) ==
    [agents |-> AgentNames, edges |-> edges, start |-> start,
     pc |-> "idle", state |-> [history |-> <<>>], current |-> None,
     visited |-> {}, ret |-> NoResult]

\* Agent.__call__ with the default fn_after_llm: the turn is appended to the
\* history and the state is returned
AgentCall(name, st) ==
    [st EXCEPT !.history = Append(st.history, name)]

\* [dst for src, dst, pred in self.edges if src == current and pred(state)]
next_nodes(edges, current, st) ==
    LET out == SelectSeq(edges, LAMBDA e : e[1] = current /\ Holds(e[3], st))
    IN  [k \in DOMAIN out |-> out[k][2]]

\* state = initial_state; current = self.start; visited = set()
Run ==
    /\ run.pc = "idle"
    /\ run' = [run EXCEPT !.pc = "loop", !.current = run.start, !.visited = {}]
    /\ UNCHANGED <<engine_vars, fasdc, chat, clar_vars>>

\* if current in visited: break
Break ==
    /\ run.pc = "loop"
    /\ Truthy(run.current)
    /\ run.current \in run.visited
    /\ run' = [run EXCEPT !.pc = "done", !.ret = Ok(run.state)]
    /\ UNCHANGED <<engine_vars, fasdc, chat, clar_vars>>

\* mutant of Visit: the predicates are evaluated on the state as it was
\* before the agent took its turn
Visit_on_old_state ==
    /\ run.pc = "loop"
    /\ Truthy(run.current)
    /\ run.current \notin run.visited
    /\ IF run.current \notin run.agents
       THEN run' = [run EXCEPT !.pc = "raised",
                               !.visited = run.visited \cup {run.current},
                               !.ret = Raise("KeyError")]
       ELSE LET st  == AgentCall(run.current, run.state)
                nxt == next_nodes(run.edges, run.current, run.state)
            IN  run' = [run EXCEPT !.visited = run.visited \cup {run.current},
                                   !.state = st,
                                   !.current = IF nxt # <<>> THEN nxt[1] ELSE None]
    /\ UNCHANGED <<engine_vars, fasdc, chat, clar_vars>>

\* visited.add(current); state = self.agents[current](state); current = the
\* destination of the first outbound edge whose predicate is true, or None
Visit ==
    /\ run.pc = "loop"
    /\ Truthy(run.current)
    /\ run.current \notin run.visited
    /\ IF run.current \notin run.agents
       THEN run' = [run EXCEPT !.pc = "raised",
                               !.visited = run.visited \cup {run.current},
                               !.ret = Raise("KeyError")]
       ELSE LET st  == AgentCall(run.current, run.state)
                nxt == next_nodes(run.edges, run.current, st)
            IN  run' = [run EXCEPT !.visited = run.visited \cup {run.current},
                                   !.state = st,
                                   !.current = IF nxt # <<>> THEN nxt[1] ELSE None]
    /\ UNCHANGED <<engine_vars, fasdc, chat, clar_vars>>

\* the loop condition is false: return state
ReturnState ==
    /\ run.pc = "loop"
    /\ ~Truthy(run.current)
    /\ run' = [run EXCEPT !.pc = "done", !.ret = Ok(run.state)]
    /\ UNCHANGED <<engine_vars, fasdc, chat, clar_vars>>

\* any list of up to MaxGraphEdges edges, in any insertion order, and a start
\* that is a registered agent or the default ""
InitGraph ==
    /\ InitEngine
    /\ fasdc = NoResult
    /\ chat = <<>>
    /\ InitClar
    /\ \E m \in 0..MaxGraphEdges :
       \E edges \in [1..m -> EdgeChoices] :
       \E start \in AgentNames \cup {""} :
           run = AgentGraph(edges, start)

NextGraph ==
    \/ Run
    \/ Break
    \/ Visit
    \/ ReturnState

SpecGraph == InitGraph /\ [][NextGraph]_vars

\* every agent that is called returns
SpecGraphFair == SpecGraph /\ WF_vars(NextGraph)

----------------------------------------------------------------------------
(* The mission clarifier of example.py.  state is the state dict, a function *)
(* from its keys; a mission request is a dict from field names to values.    *)

\* d.get(k, default) and d.update(e)
get(d, k, default) ==
    IF k \in DOMAIN d THEN d[k] ELSE default

update(d, e) ==
    [x \in DOMAIN d \cup DOMAIN e |-> IF x \in DOMAIN e THEN e[x] ELSE d[x]]

\* the readings of the wall clock that _utcnow may return
UtcNow == {"2025-07-02T08:00:00+00:00", "2025-07-02T08:00:01+00:00"}

\* the content of a history entry or of assistant_message: a text, or the
\* JSON text of a request
Text(t) == [text |-> t, json |-> <<>>]

dumps(req) == [text |-> "json", json |-> req]

Entry(time, role, content) ==
    [time |-> time, role |-> role, content |-> content]

\* mutant of _log: beyond the cap the newest entries are deleted
_log_drops_newest(st, time, role, content) ==
    LET hist == Append(get(st, "history", <<>>), Entry(time, role, content))
    IN  Put(st, "history",
            IF Len(hist) > _HISTORY_CAP THEN SubSeq(hist, 1, _HISTORY_CAP) ELSE hist)

\* hist = state.setdefault("history", []); hist.append(...);
\* if len(hist) > _HISTORY_CAP: del hist[: len(hist) - _HISTORY_CAP]
_log(st, time, role, content) ==
    LET hist == Append(get(st, "history", <<>>), Entry(time, role, content))
    IN  Put(st, "history",
            IF Len(hist) > _HISTORY_CAP
            THEN SubSeq(hist, Len(hist) - _HISTORY_CAP + 1, Len(hist))
            ELSE hist)

_ALLOWED_MISSION_TYPES ==
    {"reconnaissance", "strike", "escort", "resupply", "evacuation", "close air support"}

_ALLOWED_PRIORITIES == {"low", "medium", "high"}

\* the properties of MISSION_REQUEST_SCHEMA and its "required" list, in the
\* order of the schema
Fields ==
    <<"mission_type", "area_of_operations", "start_time", "duration_hours", "priority">>

\* v.startswith("recon") for the mission types that occur here
StartsWithRecon(v) ==
    v \in {"recon", "reconnaissance"}

\* _normalise: a mission type that starts with "recon" is written out; a
\* mission type of None has no startswith and raises; a priority of None is
\* left alone; the other values here are strings without surrounding
\* punctuation and integer durations, which it returns as they are
_normalise(req) ==
    IF "mission_type" \in DOMAIN req /\ req["mission_type"] = None
    THEN Raise("AttributeError")
    ELSE Ok([k \in DOMAIN req |->
                IF k = "mission_type" /\ StartsWithRecon(req[k])
                THEN "reconnaissance" ELSE req[k]])

\* the keyword a present value fails, "" if it passes
FailedKeyword(k, v) ==
    IF k = "mission_type" THEN (IF v \in _ALLOWED_MISSION_TYPES THEN "" ELSE "enum")
    ELSE IF k = "priority" THEN (IF v \in _ALLOWED_PRIORITIES THEN "" ELSE "enum")
    ELSE IF k = "duration_hours" THEN (IF v >= 1 THEN "" ELSE "minimum")
    ELSE ""

\* list(_validator.iter_errors(draft)), each error written as what
\* _first_problem makes of it: the failed keyword of a present property, in
\* the order of "properties", then the name of each missing property, in the
\* order of "required"
iter_errors(req) ==
    LET bad     == SelectSeq(Fields, LAMBDA k : k \in DOMAIN req /\ FailedKeyword(k, req[k]) # "")
        missing == SelectSeq(Fields, LAMBDA k : k \notin DOMAIN req)
    IN  [i \in DOMAIN bad |-> FailedKeyword(bad[i], req[bad[i]])] \o missing

\* _first_problem(errors) or "unknown"
_first_problem(errors) ==
    IF errors = <<>> THEN "unknown" ELSE Head(errors)

\* QUESTION_BANK.get(missing, "Could you provide a valid value for ...")
Question(missing) ==
    Text("question about " \o missing)

\* what the commander may type, and what _extract_json makes of it: the
\* regular expressions, or the model's function call when it is reachable
\* (which for "recon" keeps the word, while difflib finds no close match)
Order ==
    [mission_type |-> "strike", area_of_operations |-> "18S UJ 23371 06519",
     start_time |-> "02 Jul 2025 0800Z", duration_hours |-> 2, priority |-> "high"]

_extract_json(text) ==
    IF text = "strike 18S UJ 23371 06519 start 02 Jul 2025 0800Z prio high" THEN {Order}
    ELSE IF text = "strike 18S UJ 23371 06519"
    THEN {[mission_type |-> "strike", area_of_operations |-> "18S UJ 23371 06519"]}
    ELSE IF text = "start 02 Jul 2025 0800Z prio high"
    THEN {[start_time |-> "02 Jul 2025 0800Z", duration_hours |-> 2, priority |-> "high"]}
    ELSE IF text = "3h" THEN {[duration_hours |-> 3]}
    ELSE IF text = "wait 0" THEN {[duration_hours |-> 0]}
    ELSE IF text = "prio urgent" THEN {[priority |-> None]}
    ELSE IF text = "evac" THEN {[mission_type |-> None]}
    ELSE IF text = "recon" THEN {[mission_type |-> None], [mission_type |-> "recon"]}
    ELSE {EmptyDict}

Commands ==
    {"", "strike 18S UJ 23371 06519 start 02 Jul 2025 0800Z prio high",
     "strike 18S UJ 23371 06519", "start 02 Jul 2025 0800Z prio high",
     "3h", "wait 0", "prio urgent", "evac", "recon"}

\* mission_clarifier(st) where _extract_json returns extract and the clock
\* reads t1 and t2 at the two calls of _log; exc tells whether it returned
mission_clarifier(st, extract, t1, t2) ==
    LET user_msg == get(st, "raw_input", "")
        st1      == IF user_msg # "" THEN _log(st, t1, "user", Text(user_msg)) ELSE st
        user_log == IF user_msg # "" THEN <<Entry(t1, "user", Text(user_msg))>> ELSE <<>>
        draft0   == get(st1, "mission_request", EmptyDict)
        draft1   == IF user_msg # "" THEN update(draft0, extract) ELSE draft0
        norm     == _normalise(draft1)
    IN  IF norm.exc # "none"
        THEN [exc |-> norm.exc, state |-> st1, logs |-> user_log]
        ELSE
        LET draft  == norm.val
            st2    == Put(st1, "mission_request", draft)
            errors == iter_errors(draft)
        IN  IF errors = <<>>
            THEN LET assistant_msg == dumps(draft)
                     st3 == update(st2, [completed_request |-> draft,
                                         assistant_message |-> assistant_msg,
                                         requires_user |-> FALSE])
                 IN  [exc |-> "none",
                      state |-> _log(st3, t2, "assistant", assistant_msg),
                      logs |-> Append(user_log, Entry(t2, "assistant", assistant_msg))]
            ELSE LET first   == _first_problem(errors)
                     missing == IF first = get(st2, "last_question", None) /\ Len(errors) > 1
                                THEN _first_problem(Tail(errors))
                                ELSE first
                     assistant_msg == Question(missing)
                     st3 == update(st2, [assistant_message |-> assistant_msg,
                                         requires_user |-> TRUE,
                                         last_question |-> missing])
                 IN  [exc |-> "none",
                      state |-> _log(st3, t2, "assistant", assistant_msg),
                      logs |-> Append(user_log, Entry(t2, "assistant", assistant_msg))]

\* one turn: the caller stores the command under raw_input and calls
\* mission_clarifier
Turn ==
    /\ turns < MaxTurns
    /\ \E cmd \in Commands :
       \E extract \in _extract_json(cmd) :
       \E t1 \in UtcNow, t2 \in UtcNow :
           LET r == mission_clarifier(Put(state, "raw_input", cmd), extract, t1, t2)
           IN  /\ state' = r.state
               /\ logged' = logged \o r.logs
    /\ turns' = turns + 1
    /\ UNCHANGED <<engine_vars, fasdc, chat, run>>

\* the state the demo starts from, or an empty state dict
InitClarifier ==
    /\ InitEngine
    /\ fasdc = NoResult
    /\ chat = <<>>
    /\ run = <<>>
    /\ state \in {[mission_request |-> EmptyDict, requires_user |-> TRUE], EmptyDict}
    /\ logged = <<>>
    /\ turns = 0

NextClarifier ==
    \/ Turn

SpecClarifier == InitClarifier /\ [][NextClarifier]_vars

----------------------------------------------------------------------------
(* The history log on its own: calls of _log on a state dict *)

\* k entries logged earlier, each with a content of its own
Earlier(k) ==
    [i \in 1..k |-> Entry("2025-07-02T07:00:00+00:00", "user", Text(ToString(i)))]

\* how many entries were logged before: none, or a number up to the cap
EarlierLogs == {0, _HISTORY_CAP - 2, _HISTORY_CAP - 1, _HISTORY_CAP}

\* _log(state, role, content)
LogCall ==
    /\ turns < MaxLogs
    /\ \E time \in UtcNow, role \in {"user", "assistant"} :
       \E content \in {Text("strike"), Question("priority")} :
           /\ state' = _log(state, time, role, content)
           /\ logged' = Append(logged, Entry(time, role, content))
    /\ turns' = turns + 1
    /\ UNCHANGED <<engine_vars, fasdc, chat, run>>

InitLog ==
    /\ InitEngine
    /\ fasdc = NoResult
    /\ chat = <<>>
    /\ run = <<>>
    /\ \E k \in EarlierLogs :
           /\ logged = Earlier(k)
           /\ state = IF k = 0 THEN EmptyDict ELSE [history |-> Earlier(k)]
    /\ turns = 0

NextLog ==
    \/ LogCall

SpecLog == InitLog /\ [][NextLog]_vars

----------------------------------------------------------------------------
(* Vocabulary of the properties *)

Ids(ts) == Range(IdsOf(ts))

UniqueIds(ts) ==
    \A i, j \in DOMAIN ts : ts[i].id = ts[j].id => i = j

\* every listed dependency names a declared id
Resolved(ts) ==
    \A i \in DOMAIN ts : Range(ts[i].dependencies) \subseteq Ids(ts)

DirectDeps(ts, x) ==
    UNION {Range(ts[i].dependencies) : i \in {j \in DOMAIN ts : ts[j].id = x}}

RECURSIVE DepClosure(_, _)
DepClosure(ts, S) ==
    LET S2 == S \cup UNION {DirectDeps(ts, x) : x \in S \cap Ids(ts)}
    IN  IF S2 = S THEN S ELSE DepClosure(ts, S2)

\* x depends on y, directly or through other tasks
TransDeps(ts, x) ==
    DepClosure(ts, DirectDeps(ts, x))

Cyclic(ts) ==
    \E x \in Ids(ts) : x \in TransDeps(ts, x)

WellFormed(ts) ==
    UniqueIds(ts) /\ Resolved(ts) /\ ~Cyclic(ts)

TaskOf(ts, x) ==
    ts[CHOOSE i \in DOMAIN ts : ts[i].id = x]

PosIn(s, x) ==
    CHOOSE k \in DOMAIN s : s[k] = x

Toposorted == pc = "toposort"

Scheduled == pc = "schedule"

Scored == pc = "score"

Returned(r) == r.exc = "none"

\* the instants a returned Schedule records for task id x
StartOf(x) ==
    IF impl = "enhanced" THEN sched.val[x].start
    ELSE sched.val[CHOOSE k \in DOMAIN sched.val : sched.val[k].id = x].est

EndOf(x) ==
    IF impl = "enhanced" THEN sched.val[x].end
    ELSE sched.val[CHOOSE k \in DOMAIN sched.val : sched.val[k].id = x].eet

ScheduledIds ==
    IF impl = "enhanced" THEN DOMAIN sched.val
    ELSE {sched.val[k].id : k \in DOMAIN sched.val}

----------------------------------------------------------------------------
(* Properties of topological_order, under SpecTopo *)

\* C1: for a task set with unique ids, resolved dependencies and no cycle,
\* the returned order holds every task id exactly once and every dependency
\* of a task stands before the task.
C1_TopoOrderValid ==
    (Toposorted /\ WellFormed(tasks)) =>
        /\ Len(order) = Len(tasks)
        /\ \A x \in Ids(tasks) : Count(order, x) = 1
        /\ \A x \in Ids(tasks) : \A d \in DirectDeps(tasks, x) :
               PosIn(order, d) < PosIn(order, x)

\* a well-formed set of three tasks that had to be reordered
C1_Witness ==
    /\ Toposorted /\ WellFormed(tasks)
    /\ Len(tasks) = 3
    /\ order # IdsOf(tasks)
    /\ \E x \in Ids(tasks) : Cardinality(DirectDeps(tasks, x)) = 2

\* C5: for a task set whose dependency graph has a cycle, the returned order
\* is the declaration order of the ids, unchanged.
C5_CycleFallback ==
    (Toposorted /\ Cyclic(tasks)) =>
        /\ order = IdsOf(tasks)
        /\ Len(order) = Len(tasks)

\* T1 and T2 depend on each other and T3, declared last, is free: the loop
\* emits T3 alone and the declaration order is returned instead
C5_Witness ==
    /\ Toposorted /\ Cyclic(tasks)
    /\ Len(tasks) = 3
    /\ tasks[1].dependencies = <<TaskId(2)>>
    /\ tasks[2].dependencies = <<TaskId(1)>>
    /\ tasks[3].dependencies = <<>>
    /\ order = <<TaskId(1), TaskId(2), TaskId(3)>>

----------------------------------------------------------------------------
(* Properties of schedule, under Spec *)

\* the exact length of a duration of x hours is (End - Start) ticks
ExactlyHours(ticks, x) ==
    ticks * x[2] = x[1] * TicksPerHour

\* C2: for a well-formed task set schedule returns, and every task with a
\* dependency starts no earlier than each of its dependencies ends.
C2_StartAfterDeps ==
    (Scheduled /\ WellFormed(tasks)) =>
        /\ Returned(sched)
        /\ \A x \in Ids(tasks) : \A d \in DirectDeps(tasks, x) :
               StartOf(x) >= EndOf(d)

\* a task with two dependencies that end at different instants
C2_Witness ==
    /\ Scheduled /\ WellFormed(tasks) /\ Returned(sched)
    /\ \E x \in Ids(tasks) : \E d1, d2 \in DirectDeps(tasks, x) :
           /\ EndOf(d1) < EndOf(d2)
           /\ StartOf(x) = EndOf(d2)

\* C3 as stated: the recorded end is the recorded start plus the duration.
C3_EndIsStartPlusDuration ==
    (Scheduled /\ Returned(sched)) =>
        \A x \in Ids(tasks) :
            ExactlyHours(EndOf(x) - StartOf(x), TaskOf(tasks, x).duration_hours)

\* C3 amended: enhanced_coa records end = start + duration; coa_generator
\* records end = start + the duration cut down to whole milliseconds.
C3_EndIsStartPlusDurationMs ==
    (Scheduled /\ Returned(sched)) =>
        \A x \in Ids(tasks) :
            LET span == EndOf(x) - StartOf(x)
                dur  == TaskOf(tasks, x).duration_hours
            IN  IF impl = "enhanced" THEN ExactlyHours(span, dur)
                ELSE /\ span % TicksPerMs = 0
                     /\ span * dur[2] <= dur[1] * TicksPerHour
                     /\ dur[1] * TicksPerHour < (span + TicksPerMs) * dur[2]

\* coa_generator scheduled a task whose duration has a sub-millisecond part
C3_Witness ==
    /\ Scheduled /\ Returned(sched) /\ impl = "dict"
    /\ \E x \in Ids(tasks) :
           ~ExactlyHours(EndOf(x) - StartOf(x), TaskOf(tasks, x).duration_hours)

\* C4 as stated: a task that declares a window start starts no earlier.
C4_StartAfterWindow ==
    (Scheduled /\ Returned(sched)) =>
        \A x \in Ids(tasks) :
            TaskOf(tasks, x).window.kind = "iso" =>
                StartOf(x) >= TaskOf(tasks, x).window.at

\* C4 amended: enhanced_coa starts the task no earlier than its window start;
\* coa_generator no earlier than the window start cut down to whole
\* milliseconds, that is less than one millisecond before it.
C4_StartAfterWindowMs ==
    (Scheduled /\ Returned(sched)) =>
        \A x \in Ids(tasks) :
            TaskOf(tasks, x).window.kind = "iso" =>
                IF impl = "enhanced"
                THEN StartOf(x) >= TaskOf(tasks, x).window.at
                ELSE StartOf(x) + TicksPerMs > TaskOf(tasks, x).window.at

\* coa_generator started a task before its sub-millisecond window start
C4_Witness ==
    /\ Scheduled /\ Returned(sched) /\ impl = "dict"
    /\ \E x \in Ids(tasks) :
           /\ TaskOf(tasks, x).window.kind = "iso"
           /\ StartOf(x) < TaskOf(tasks, x).window.at
           /\ DirectDeps(tasks, x) # {}

\* C6 as stated: on a cyclic task set schedule returns an entry for every
\* task, a dependency without an entry counting as the reference time.
C6_TotalOnCycles ==
    (Scheduled /\ UniqueIds(tasks) /\ Resolved(tasks) /\ Cyclic(tasks)) =>
        /\ Returned(sched)
        /\ ScheduledIds = Ids(tasks)

\* C7 as stated: with a dependency on an id that is not declared schedule
\* returns an entry for every task, the unknown id being ignored.
C7_UnknownDependencyIgnored ==
    (Scheduled /\ UniqueIds(tasks) /\ ~Resolved(tasks) /\ ~Cyclic(tasks)) =>
        /\ Returned(sched)
        /\ ScheduledIds = Ids(tasks)


----------------------------------------------------------------------------
(* Properties of score, under SpecScore *)

\* the totals as the specification words them: plain sums over all tasks
DurationTotal(ts) ==
    RSumSeq([i \in DOMAIN ts |-> ts[i].duration_hours])

RiskTotal(ts) ==
    SumSeq([i \in DOMAIN ts |-> Len(ts[i].risks)])

ResourceTotal(ts) ==
    SumSeq([i \in DOMAIN ts |-> SumValues(ts[i].resources)])

DependencyTotal(ts) ==
    SumSeq([i \in DOMAIN ts |-> Len(ts[i].dependencies)])

\* the duration total with coa_generator's reading of a zero duration
DurationCounted(ts) ==
    IF impl = "dict"
    THEN RSumSeq([i \in DOMAIN ts |->
             IF ts[i].duration_hours[1] = 0 THEN Hours(1) ELSE ts[i].duration_hours])
    ELSE DurationTotal(ts)

\* clamp01(x) = max(0, min(1, x)), by cases
UnitClamp(x) ==
    IF RLe(One, x) THEN One ELSE IF RLe(x, Zero) THEN Zero ELSE x

\* clamp01(1 - total/divisor)
Claimed(total, divisor) ==
    UnitClamp(RSub(One, <<total[1], total[2] * divisor>>))

\* the weights score reads: a key coa_generator's dict leaves out is its default
WeightsRead ==
    [k \in ScoreKeys |-> IF k \in DOMAIN w THEN w[k] ELSE DefaultWeights[k]]

RECURSIVE RSumOver(_, _)
RSumOver(f, S) ==
    IF S = {} THEN Zero
    ELSE LET k == CHOOSE x \in S : TRUE
         IN  RAdd(f[k], RSumOver(f, S \ {k}))

ClaimedComposite ==
    UnitClamp(RSumOver([k \in ScoreKeys |-> RMul(metrics.val[k], WeightsRead[k])], ScoreKeys))

\* C8: with non-negative durations, risk counts, resource quantities,
\* dependency counts and weights, score returns and each of the five
\* sub-scores and the composite lies in [0, 1].
C8_ScoresInUnitInterval ==
    Scored =>
        /\ Returned(metrics)
        /\ DOMAIN metrics.val = ScoreKeys \cup {"composite"}
        /\ \A k \in DOMAIN metrics.val : InUnit(metrics.val[k])

\* the duration total is far above its divisor: speed is clamped to 0 and
\* the composite is still a proper fraction
C8_Witness ==
    /\ Scored /\ Returned(metrics) /\ impl = "enhanced"
    /\ RLe(Hours(2 * HoursDivisor), DurationTotal(tasks))
    /\ metrics.val.speed = Zero
    /\ metrics.val.composite # Zero /\ metrics.val.composite # One

ZeroLoad(ts) ==
    /\ DurationTotal(ts) = Zero
    /\ RiskTotal(ts) = 0
    /\ ResourceTotal(ts) = 0
    /\ DependencyTotal(ts) = 0

ScoreFormulas(duration) ==
    /\ metrics.val.speed = Claimed(duration, HoursDivisor)
    /\ metrics.val.safety = Claimed(<<RiskTotal(tasks), 1>>, RiskDivisor)
    /\ metrics.val.sustainment = Claimed(<<ResourceTotal(tasks), 1>>, ResourceDivisor)
    /\ metrics.val.simplicity = Claimed(<<DependencyTotal(tasks), 1>>, DependencyDivisor)
    /\ metrics.val.composite = ClaimedComposite
    /\ metrics.val.speed = Zero <=> RLe(Hours(HoursDivisor), duration)
    /\ metrics.val.safety = Zero <=> RiskTotal(tasks) >= RiskDivisor
    /\ metrics.val.sustainment = Zero <=> ResourceTotal(tasks) >= ResourceDivisor
    /\ metrics.val.simplicity = Zero <=> DependencyTotal(tasks) >= DependencyDivisor

C11_CostEqualsSustainment ==
    Scored =>
        /\ Returned(metrics)
        /\ metrics.val.cost = metrics.val.sustainment

\* a resource total just below its divisor and a dependency total of another
\* size: both sub-scores are the same proper fraction
C11_Witness ==
    /\ Scored /\ Returned(metrics)
    /\ ResourceTotal(tasks) = ResourceDivisor - 1
    /\ DependencyTotal(tasks) = DependencyDivisor - 1
    /\ metrics.val.cost = Rat(1, ResourceDivisor)
    /\ metrics.val.sustainment = Rat(1, ResourceDivisor)


----------------------------------------------------------------------------
(* Properties of the worked example, under SpecScenario *)

\* C12: for T1 (4 h), T2 (3 h, after T1), T3 (6 h, after T1 and T2), declared
\* in this order without windows, and reference time 00:00, topological_order
\* returns [T1, T2, T3] and schedule returns T1 = [00:00, 04:00),
\* T2 = [04:00, 07:00), T3 = [07:00, 13:00).
C12_WorkedExampleSchedule ==
    (tasks = ExampleTasks /\ now = Iso(At(0))) =>
        /\ Toposorted => order = <<TaskId(1), TaskId(2), TaskId(3)>>
        /\ Scheduled =>
               /\ Returned(sched)
               /\ ScheduledIds = {TaskId(1), TaskId(2), TaskId(3)}
               /\ StartOf(TaskId(1)) = At(0) /\ EndOf(TaskId(1)) = At(4)
               /\ StartOf(TaskId(2)) = At(4) /\ EndOf(TaskId(2)) = At(7)
               /\ StartOf(TaskId(3)) = At(7) /\ EndOf(TaskId(3)) = At(13)
               /\ impl = "dict" =>
                      IdsOf(sched.val) = <<TaskId(1), TaskId(2), TaskId(3)>>

\* coa_generator returned the timeline of the example: the three entries in
\* topological order with their instants
C12_Witness ==
    /\ Scheduled /\ impl = "dict"
    /\ tasks = ExampleTasks /\ now = Iso(At(0))
    /\ sched = Ok(<<[id |-> TaskId(1), est |-> At(0), eet |-> At(4)],
                    [id |-> TaskId(2), est |-> At(4), eet |-> At(7)],
                    [id |-> TaskId(3), est |-> At(7), eet |-> At(13)]>>)


\* x in ten-thousandths, rounded to the nearest
Round4(x) ==
    (2 * 10000 * x[1] + x[2]) \div (2 * x[2])

\* the example tasks in any declaration order, scored under the default weights
ExampleScored ==
    /\ Scored
    /\ Len(tasks) = Len(ExampleTasks) /\ Range(tasks) = Range(ExampleTasks)
    /\ w = DefaultWeights

\* C13 as stated: the composite of the example under the default weights is
\* 0.8368 to four decimal places.
C13_ExampleComposite8368 ==
    ExampleScored =>
        /\ Returned(metrics)
        /\ Round4(metrics.val.composite) = 8368

\* C13 amended: speed is 59/72, simplicity 17/20, the three other sub-scores
\* 1, and the composite 6583/7200, which is 0.9143 to four decimal places.
C13_ExampleComposite9143 ==
    ExampleScored =>
        /\ Returned(metrics)
        /\ metrics.val.speed = Rat(59, 72)
        /\ metrics.val.simplicity = Rat(17, 20)
        /\ metrics.val.safety = One
        /\ metrics.val.sustainment = One
        /\ metrics.val.cost = One
        /\ metrics.val.composite = Rat(6583, 7200)
        /\ Round4(metrics.val.composite) = 9143

\* enhanced_coa scored the example as declared
C13_Witness ==
    /\ ExampleScored /\ impl = "enhanced" /\ Returned(metrics)
    /\ tasks = ExampleTasks
    /\ DependencyTotal(tasks) = 3
    /\ Round4(metrics.val.composite) = 9143


----------------------------------------------------------------------------
(* Tie-breaking of topological_order, under SpecTopo *)

\* the position of id x in the declaration
DeclIdx(x) ==
    CHOOSE i \in DOMAIN tasks : tasks[i].id = x

\* the tasks not among the emitted ids whose dependencies are all emitted
ReadyAfter(emitted) ==
    {i \in DOMAIN tasks : /\ tasks[i].id \notin emitted
                          /\ Range(tasks[i].dependencies) \subseteq emitted}

\* C14 as stated: at every step the id emitted next is the first task in
\* declaration order among the tasks not yet emitted whose dependencies have
\* all been emitted.
C14_FirstReadyInDeclarationOrder ==
    (Toposorted /\ WellFormed(tasks)) =>
        \A k \in DOMAIN order :
            LET ready == ReadyAfter({order[j] : j \in 1..(k - 1)})
            IN  /\ ready # {}
                /\ order[k] = tasks[CHOOSE i \in ready : \A j \in ready : i <= j].id

\* the step at which x became ready: the position in the order of its last
\* dependency, 0 if it has none
ReadyAt(x) ==
    MaxOr({PosIn(order, d) : d \in DirectDeps(tasks, x)}, 0)

\* C14 amended: ids are emitted first-in-first-out in the order they become
\* ready: an id that became ready at an earlier step stands before one that
\* became ready later, and ids that became ready at the same step stand in
\* declaration order.
C14_ReadyFirstThenDeclarationOrder ==
    (Toposorted /\ WellFormed(tasks)) =>
        /\ Len(order) = Len(tasks)
        /\ \A j, k \in DOMAIN order :
               j < k =>
                   \/ ReadyAt(order[j]) < ReadyAt(order[k])
                   \/ /\ ReadyAt(order[j]) = ReadyAt(order[k])
                      /\ DeclIdx(order[j]) < DeclIdx(order[k])

\* A, then B that depends on A, then C that depends on nothing: C was ready
\* from the start and is emitted before B
C14_Witness ==
    /\ Toposorted /\ WellFormed(tasks)
    /\ Len(tasks) = 3
    /\ tasks[1].dependencies = <<>>
    /\ tasks[2].dependencies = <<TaskId(1)>>
    /\ tasks[3].dependencies = <<>>
    /\ order = <<TaskId(1), TaskId(3), TaskId(2)>>


----------------------------------------------------------------------------
(* Determinism and frame of the calls, under SpecScenario *)

\* C15 as stated: schedule called again with the same task set and the same
\* reference_time argument, whatever that argument is, returns the same
\* Schedule.
C15_SameArgumentsSameSchedule ==
    [][(pc = "schedule" /\ pc' = "schedule" /\ impl' = impl
            /\ tasks' = tasks /\ now' = now)
        => sched' = sched]_vars


\* C16: topological_order, schedule and score leave the caller's task set
\* unchanged: the list, its order and every field of every task are after the
\* call what they were before it.
C16_TaskSetUnchanged ==
    [][tasks' = tasks]_vars

\* topological_order returned T1, T2, T3 for the example declared as
\* T3, T1, T2, and the task list is still in its declared order
C16_Witness ==
    /\ Toposorted
    /\ order = <<TaskId(1), TaskId(2), TaskId(3)>>
    /\ tasks = <<ExampleTasks[3], ExampleTasks[1], ExampleTasks[2]>>


----------------------------------------------------------------------------
(* Properties of the validation layer, under SpecValidate *)

Validated == pc = "validated"

IllFormed(ts) ==
    ~UniqueIds(ts) \/ ~Resolved(ts) \/ Cyclic(ts)

\* C17 as stated: either validator, applied to a task list that is not empty,
\* raises exactly when two tasks share an id, or a dependency names an id not
\* in the set, or the dependency graph has a cycle.
C17_RaisesIffIllFormed ==
    (Validated /\ tasks # <<>>) =>
        (~Returned(checked) <=> IllFormed(tasks))

\* C17 amended: COARequest raises exactly in these three cases; COAResponse
\* raises exactly in these three cases or when a sync point depends on an id
\* that no task bears.
C17_RaisesIffIllFormedOrSyncUnknown ==
    (Validated /\ tasks # <<>>) =>
        /\ impl = "request" => (~Returned(checked) <=> IllFormed(tasks))
        /\ impl = "response" =>
               (~Returned(checked) <=>
                    (IllFormed(tasks) \/ UnknownSyncDependency(tasks, sync_points)))
        /\ Returned(checked) => checked.val = tasks

\* COAResponse raised on a well-formed list of three tasks with two
\* dependencies, because of a sync point on an unknown id
C17_Witness ==
    /\ Validated /\ impl = "response"
    /\ Len(tasks) = 3 /\ WellFormed(tasks)
    /\ DependencyTotal(tasks) = 2
    /\ UnknownSyncDependency(tasks, sync_points)
    /\ ~Returned(checked)

\* C20 as stated: every seed task list that is not empty and that COARequest
\* accepted is scheduled by _schedule without an error, with one entry per
\* task id, every task starting no earlier than each of its dependencies ends.
C20_AcceptedSeedIsScheduled ==
    (Scheduled /\ Returned(checked) /\ tasks # <<>>) =>
        /\ Returned(sched)
        /\ ScheduledIds = Ids(tasks)
        /\ Cardinality(ScheduledIds) = Len(tasks)
        /\ \A x \in Ids(tasks) : \A d \in DirectDeps(tasks, x) :
               StartOf(x) >= EndOf(d)


----------------------------------------------------------------------------
(* The start instant of schedule, under Spec *)

\* max(dependency_end, earliest_from_window) of task x for the reference
\* instant ref and the reading win of a window start
EarliestFeasible(x, ref, win(_)) ==
    LET t              == TaskOf(tasks, x)
        dependency_end == MaxOr({EndOf(d) : d \in DirectDeps(tasks, x)}, ref)
        from_window    == IF t.window.kind = "iso" THEN win(t.window.at) ELSE ref
    IN  Max2(dependency_end, from_window)

AsGiven(t) == t

\* t cut down to whole milliseconds
WholeMs(t) == (t \div TicksPerMs) * TicksPerMs

----------------------------------------------------------------------------
(* Properties of concurrent invocations, under SpecConcurrent *)

\* what invocation f returns when it runs alone
Alone(f) ==
    IF f.op = "schedule" THEN _schedule(f.tasks, f.now_dt) ELSE _score(f.tasks, f.w)

\* what the caller of a finished invocation f holds
Outcome(f) ==
    IF f.op = "schedule" /\ f.pc = "done" THEN Ok(heap[f.result]) ELSE f.ret

Finished(f) == f.pc \in {"done", "raised"}

\* a step of one invocation leaves the local variables and the result object
\* of the other as they were
StepsApart ==
    \A p \in Procs : \A q \in Procs \ {p} :
        frames'[p] # frames[p] =>
            /\ frames'[q] = frames[q]
            /\ frames[q].result \in DOMAIN heap =>
                   heap'[frames[q].result] = heap[frames[q].result]

\* C18: two invocations of schedule or score on independent task sets, their
\* steps interleaved in any order, each return what they return when run
\* alone, and no step of one touches the state of the other.
C18_InterleavedAsAlone ==
    /\ [](\A p \in Procs : Finished(frames[p]) => Outcome(frames[p]) = Alone(frames[p]))
    /\ [][StepsApart]_vars

\* invocation 1 entered schedule first and has scheduled one of its two
\* tasks while invocation 2, on another task set with the same ids, has
\* already returned its own Schedule
C18_Witness ==
    /\ frames[1].op = "schedule" /\ frames[2].op = "schedule"
    /\ frames[1].pc = "loop" /\ frames[2].pc = "done"
    /\ frames[1].result = 1 /\ frames[2].result = 2
    /\ Len(frames[1].order) = 1
    /\ DOMAIN heap[1] = {TaskId(1)}
    /\ DOMAIN heap[2] = {TaskId(1), TaskId(2)}
    /\ heap[1][TaskId(1)] # heap[2][TaskId(1)]
    /\ Ok(heap[2]) = Alone(frames[2])


----------------------------------------------------------------------------
(* Properties of the completeness check, under SpecTopo *)

\* C21 as stated: on a task set whose dependencies contain a cycle, _fasdc
\* reports complete = false.
C21_CompleteOnlyIfAcyclic ==
    (pc = "fasdc" /\ Cyclic(tasks)) => ~fasdc.val.complete

----------------------------------------------------------------------------
(* Further properties of schedule, under Spec and SpecReorder *)

\* C22 as stated: for a well-formed task set no task starts before the
\* reference time, whatever window start it declares.
C22_StartNotBeforeReference ==
    (Scheduled /\ WellFormed(tasks) /\ Returned(sched)) =>
        \A x \in Ids(tasks) : StartOf(x) >= now.at

\* C22 amended: enhanced_coa starts no task before the reference time;
\* coa_generator starts none before the reference time cut down to whole
\* milliseconds, which is less than a millisecond before the reference time.
C22_StartNotBeforeReferenceMs ==
    (Scheduled /\ WellFormed(tasks) /\ Returned(sched)) =>
        \A x \in Ids(tasks) :
            IF impl = "enhanced" THEN StartOf(x) >= now.at
            ELSE StartOf(x) >= WholeMs(now.at) /\ StartOf(x) > now.at - TicksPerMs

\* both implementations have scheduled a task whose window start lies before
\* the reference time: enhanced_coa at the reference time, coa_generator
\* at the reference time cut down to whole milliseconds
C22_Witness ==
    /\ Scheduled /\ WellFormed(tasks) /\ Returned(sched)
    /\ \E x \in Ids(tasks) :
           /\ TaskOf(tasks, x).window.kind = "iso"
           /\ TaskOf(tasks, x).window.at < now.at
           /\ DirectDeps(tasks, x) = {}
           /\ StartOf(x) = IF impl = "enhanced" THEN now.at ELSE WholeMs(now.at)
           /\ impl = "dict" => StartOf(x) < now.at

\* the task list ts declared in the order p
Redeclared(ts, p) ==
    [i \in DOMAIN ts |-> ts[p[i]]]

\* the (start, end) pairs by task id of a returned Schedule of either shape
TimesById(r, shape) ==
    IF shape = "enhanced" THEN r.val
    ELSE [x \in {r.val[k].id : k \in DOMAIN r.val} |->
            LET e == r.val[CHOOSE k \in DOMAIN r.val : r.val[k].id = x]
            IN  [start |-> e.est, end |-> e.eet]]

\* what the implementation that was called returns for the task list ts and
\* the reference time of the call
ScheduleOf(ts) ==
    IF impl = "enhanced" THEN {_schedule(ts, now.at)}
    ELSE {_schedule_d(ts, now, c) : c \in ClockMs}

\* C23: for a well-formed task set the (start, end) pair of every task id is
\* the same whatever the order in which the tasks are declared.
C23_DeclarationOrderIrrelevant ==
    (Scheduled /\ WellFormed(tasks) /\ Returned(sched) /\ now.kind = "iso") =>
        \A p \in Permutations(DOMAIN tasks) :
            \A r \in ScheduleOf(Redeclared(tasks, p)) :
                /\ Returned(r)
                /\ TimesById(r, impl) = TimesById(sched, impl)

\* a schedule of a task that is declared before the task it depends on, and
\* starts at that task's end
C23_Witness ==
    /\ Scheduled /\ WellFormed(tasks) /\ Returned(sched)
    /\ \E x, y \in Ids(tasks) :
           /\ x \in DirectDeps(tasks, y)
           /\ PosIn(IdsOf(tasks), y) < PosIn(IdsOf(tasks), x)
           /\ StartOf(y) = EndOf(x)
           /\ StartOf(x) < StartOf(y)

----------------------------------------------------------------------------
(* Further properties of score, under SpecScore *)

\* the task list ts without its i-th task
Without(ts, i) ==
    SubSeq(ts, 1, i - 1) \o SubSeq(ts, i + 1, Len(ts))

\* what the implementation that was called returns for the task list ts and
\* the weights of the call
ScoreOf(ts) ==
    IF impl = "enhanced" THEN _score(ts, w) ELSE _score_d(ts, w)

NonNegativeWeights ==
    \A k \in DOMAIN w : RLe(Zero, w[k])

\* a task of positive duration and non-negative resource counts
AddsLoad(t) ==
    /\ t.duration_hours[1] > 0
    /\ \A k \in DOMAIN t.resources : t.resources[k] >= 0

\* C24: with non-negative weights, a task list scores no higher, in any of
\* the five sub-scores and in the composite, than the same list without one
\* of its tasks.
C24_ScoreMonotoneInLoad ==
    (Scored /\ Returned(metrics) /\ NonNegativeWeights) =>
        \A i \in DOMAIN tasks :
            AddsLoad(tasks[i]) =>
                LET fewer == ScoreOf(Without(tasks, i))
                IN  /\ Returned(fewer)
                    /\ \A k \in ScoreKeys \cup {"composite"} :
                           RLe(metrics.val[k], fewer.val[k])

\* a score of two or more tasks whose composite is strictly below that of the
\* list without one task, while one sub-score is the same
C24_Witness ==
    /\ Scored /\ Returned(metrics) /\ NonNegativeWeights /\ Len(tasks) >= 2
    /\ \E i \in DOMAIN tasks :
           /\ AddsLoad(tasks[i])
           /\ LET fewer == ScoreOf(Without(tasks, i))
              IN  /\ metrics.val.composite # fewer.val.composite
                  /\ RLe(metrics.val.composite, fewer.val.composite)
                  /\ metrics.val.safety = fewer.val.safety
                  /\ metrics.val.speed # fewer.val.speed

----------------------------------------------------------------------------
(* The two implementations side by side, under SpecEquiv *)

\* input that both implementations accept: a well-formed task set, positive
\* durations of whole hours, non-negative resource counts, a reference time
\* and window starts with a UTC offset, five valid weights
ValidInput ==
    /\ WellFormed(tasks)
    /\ ValidTasks(tasks)
    /\ \A i \in DOMAIN tasks :
           /\ tasks[i].duration_hours[2] = 1
           /\ tasks[i].window.kind \in {"absent", "iso"}
    /\ now.kind = "iso"
    /\ ValidWeights(w)

\* every instant of a Schedule cut down to whole milliseconds
WholeMsTimes(tm) ==
    [x \in DOMAIN tm |-> [start |-> WholeMs(tm[x].start), end |-> WholeMs(tm[x].end)]]

\* the Schedule the call returned is the one its implementation computes
ScheduleReturned(e, d) ==
    sched = IF impl = "enhanced" THEN e ELSE d

SameOrder ==
    Toposorted =>
        /\ order = IF impl = "enhanced" THEN _toposort(tasks) ELSE _toposort_d(tasks)
        /\ _toposort(tasks) = _toposort_d(tasks)

SameScores ==
    Scored =>
        /\ metrics = ScoreOf(tasks)
        /\ Returned(_score(tasks, w))
        /\ _score(tasks, w).val = _score_d(tasks, w).val

\* C25 as stated: on valid input the two implementations return the same
\* topological order, the same start and end for every task, and the same
\* six score values.
C25_ImplementationsAgree ==
    ValidInput =>
        /\ SameOrder
        /\ SameScores
        /\ Scheduled =>
               LET e == _schedule(tasks, now.at)
               IN  \A c \in ClockMs :
                       LET d == _schedule_d(tasks, now, c)
                       IN  /\ ScheduleReturned(e, d)
                           /\ Returned(e) /\ Returned(d)
                           /\ TimesById(d, "dict") = TimesById(e, "enhanced")

\* C25 amended: the same order and the same six scores; the start and end
\* of coa_generator are those of enhanced_coa cut down to whole milliseconds.
C25_ImplementationsAgreeMs ==
    ValidInput =>
        /\ SameOrder
        /\ SameScores
        /\ Scheduled =>
               LET e == _schedule(tasks, now.at)
               IN  \A c \in ClockMs :
                       LET d == _schedule_d(tasks, now, c)
                       IN  /\ ScheduleReturned(e, d)
                           /\ Returned(e) /\ Returned(d)
                           /\ TimesById(d, "dict") = WholeMsTimes(TimesById(e, "enhanced"))

\* coa_generator has scheduled two dependent tasks of whole hours from a
\* reference time with a sub-millisecond part, half a millisecond earlier
\* than enhanced_coa does
C25_Witness ==
    /\ ValidInput /\ Scheduled /\ impl = "dict" /\ Returned(sched)
    /\ now.at # WholeMs(now.at)
    /\ \E x, y \in Ids(tasks) :
           /\ x \in DirectDeps(tasks, y)
           /\ StartOf(y) = EndOf(x)
           /\ StartOf(y) < _schedule(tasks, now.at).val[y].start
           /\ StartOf(y) = WholeMs(_schedule(tasks, now.at).val[y].start)

----------------------------------------------------------------------------
(* Properties of ChatLcafe.invoke, under SpecChat and SpecChatFair *)

InvokeDone == chat.pc \in {"returned", "raised"}

\* an outcome the client tries again after: one of the five statuses, or a
\* network error
RetriableOutcome(o) ==
    \/ o.kind = "http" /\ o.code \in {429, 500, 502, 503, 504}
    \/ o.kind = "network"

\* at most max_retries + 1 requests; a request that is answered with a
\* content is the last one, and invoke returns that content; when every
\* request has failed with a retriable outcome and invoke is over, it has
\* raised after exactly max_retries + 1 requests
AttemptsBounded ==
    /\ Len(chat.log) <= chat.max_retries + 1
    /\ \A k \in DOMAIN chat.log :
           chat.log[k].kind = "ok" =>
               /\ k = Len(chat.log)
               /\ chat.pc = "returned"
               /\ chat.ret = Ok(chat.log[k].content)
    /\ chat.pc = "returned" =>
           chat.log # <<>> /\ chat.log[Len(chat.log)].kind = "ok"
    /\ (InvokeDone /\ \A k \in DOMAIN chat.log : RetriableOutcome(chat.log[k])) =>
           /\ chat.pc = "raised"
           /\ Len(chat.log) = chat.max_retries + 1

\* C26: with max_retries = n >= 0, invoke makes at most n + 1 attempts,
\* returns the content of the first successful one and makes none after it,
\* raises after exactly n + 1 attempts when all of them fail with a
\* retriable outcome, and always comes to an end.
C26_BoundedRetries ==
    /\ [](chat.max_retries >= 0 => AttemptsBounded)
    /\ (chat.max_retries >= 0 => <>InvokeDone)

\* invoke has returned the content of its last permitted attempt, after a
\* retriable status and a network error
C26_Witness ==
    /\ chat.max_retries >= 2
    /\ chat.pc = "returned"
    /\ Len(chat.log) = chat.max_retries + 1
    /\ chat.ret = Ok("text")
    /\ \E j, k \in DOMAIN chat.log :
           chat.log[j].kind = "http" /\ chat.log[k].kind = "network"

\* C27: an HTTP error with a status other than 429, 500, 502, 503 and 504 is
\* raised at once on whichever attempt it occurs: it is the last request,
\* and no sleep follows it.
C27_OtherStatusRaisedAtOnce ==
    \A k \in DOMAIN chat.log :
        (chat.log[k].kind = "http" /\ chat.log[k].code \notin {429, 500, 502, 503, 504}) =>
            /\ k = Len(chat.log)
            /\ chat.pc = "raised"
            /\ chat.ret = Raise("Exception")
            /\ Len(chat.slept) = k - 1

\* status 404 on the second attempt, with retries left, has been raised
C27_Witness ==
    /\ chat.pc = "raised"
    /\ Len(chat.log) = 2
    /\ chat.max_retries >= 2
    /\ chat.log[2] = HttpError(404)
    /\ chat.slept = <<1>>

----------------------------------------------------------------------------
(* Properties of AgentGraph.run, under SpecGraphFair *)

\* every edge leads to a registered agent
GraphOfRegisteredAgents ==
    \A k \in DOMAIN run.edges :
        run.edges[k][1] \in run.agents /\ run.edges[k][2] \in run.agents

\* the agents invoked so far, in the order of their invocation
Invoked == run.state.history

\* the edges that leave agent a and whose predicate holds once the agents
\* of h have taken their turns, by insertion index
OpenEdges(a, h) ==
    {k \in DOMAIN run.edges :
        run.edges[k][1] = a /\ Holds(run.edges[k][3], [history |-> h])}

FirstOf(K) ==
    CHOOSE k \in K : \A j \in K : k <= j

RunDone == run.pc \in {"done", "raised"}

RunAsStated ==
    /\ run.pc # "raised"
    /\ \A i, j \in DOMAIN Invoked : Invoked[i] = Invoked[j] => i = j
    /\ Invoked # <<>> => Invoked[1] = run.start
    /\ \A k \in 1..(Len(Invoked) - 1) :
           LET open == OpenEdges(Invoked[k], SubSeq(Invoked, 1, k))
           IN  open # {} /\ Invoked[k + 1] = run.edges[FirstOf(open)][2]
    /\ (run.pc = "done" /\ Invoked # <<>>) =>
           LET open == OpenEdges(Invoked[Len(Invoked)], Invoked)
           IN  open = {} \/ run.edges[FirstOf(open)][2] \in Range(Invoked)
    /\ (run.pc = "done" /\ Invoked = <<>>) => run.start = ""

\* C28: on a graph of registered agents run comes to an end, also when the
\* edges form a cycle; no agent is invoked twice; each agent invoked after
\* another is the destination of the first edge, in insertion order, that
\* leaves that agent and whose predicate holds on the updated state; and the
\* run is over only when there is no such edge or its destination has been
\* visited.
C28_RunTerminates ==
    /\ [](GraphOfRegisteredAgents => RunAsStated)
    /\ (GraphOfRegisteredAgents => <>RunDone)

\* a run over a cycle of two agents has ended on coming back to the agent
\* it started from
C28_Witness ==
    /\ run.pc = "done"
    /\ GraphOfRegisteredAgents
    /\ Len(Invoked) = 2
    /\ run.current = run.start
    /\ \E k \in DOMAIN run.edges : run.edges[k][3] = "always" /\ run.edges[k][2] = run.start

----------------------------------------------------------------------------
(* Properties of the history log, under SpecLog *)

\* the last k elements of s, all of s if it has fewer
LastOf(s, k) ==
    IF Len(s) <= k THEN s ELSE SubSeq(s, Len(s) - k + 1, Len(s))

\* C29: after any sequence of _log calls the history holds at most 100
\* entries, and they are the entries logged last, in the order in which they
\* were logged.
C29_HistoryKeepsLatest ==
    turns >= 1 =>
        /\ Len(state["history"]) <= 100
        /\ state["history"] = LastOf(logged, 100)

\* two calls of _log on a full history: the two oldest entries are gone
C29_Witness ==
    /\ turns >= 2
    /\ Len(logged) = _HISTORY_CAP + 2
    /\ Len(state["history"]) = _HISTORY_CAP
    /\ state["history"][1] = logged[3]
    /\ state["history"][_HISTORY_CAP] = logged[Len(logged)]

----------------------------------------------------------------------------
(* Properties of the clarifier, under SpecClarifier *)

CurrentRequest == get(state, "mission_request", EmptyDict)

RequiresUserIffErrors ==
    (get(state, "requires_user", TRUE) = FALSE) <=> (iter_errors(CurrentRequest) = <<>>)

\* C30 as stated: after any sequence of turns requires_user is False exactly
\* when the current mission_request has no validation errors, and a
\* completed_request that is present equals the current mission_request,
\* which passes validation.
C30_CompletedIsCurrent ==
    /\ RequiresUserIffErrors
    /\ "completed_request" \in DOMAIN state =>
           /\ state["completed_request"] = CurrentRequest
           /\ iter_errors(CurrentRequest) = <<>>

====
